---- MODULE Spec2Model ----
(***************************************************************************)
(* Model of the huff2 compiler driver (crates/cli), its semantic analyser  *)
(* (crates/analysis) and its expander / assembler glue                     *)
(* (crates/compilation).                                                   *)
(***************************************************************************)
EXTENDS Integers, Sequences, FiniteSets, TLC

VARIABLES
    ast,                    \* Root: the ordered RootSections of the parsed file
    entry_point,            \* CliArguments.entry_point
    constant_overrides,     \* CliArguments.constant_overrides
    evm_version,            \* CliArguments.evm_version
    add_default_constructor,\* CliArguments.add_default_constructor
    pc,                     \* position of main
    analysis_errors,        \* main: analysis_errors
    global_defs,            \* main: global_defs  (name -> Vec<&Definition>)
    unique_defs,            \* main: unique_defs  (name -> &Definition)
    to_analyze_stack,       \* main: to_analyze_stack
    analyzed_macros,        \* main: analyzed_macros
    idx_to_remove,          \* main: idx_to_remove (1-based here)
    frames,                 \* activations of MacroAnalysis::analyze
    invoke_stack,           \* analyze_entry_point: invoke_stack
    label_stack,            \* analyze_entry_point: label_stack
    config,                 \* main: config (CompileGlobals)
    entry_point_code,       \* main: entry_point_code
    stdout,                 \* what main printed
    exit_code,              \* process exit status (-1 until main ends)
    asm_stream,             \* assembler: the assembly stream it was handed
    ref_widths,             \* assembler: the immediate width of every item
    assembled,              \* assembler: the final byte sequence
    asm_pc,                 \* assembler: position ("idle" when not running)
    asm_rounds,             \* assembler: the rounds that changed a width
    ls_saved,               \* LabelStack user: the bindings at each open enter_context
    ls_last                 \* LabelStack user: the last call and what it returned

vars == <<ast, entry_point, constant_overrides, evm_version,
          add_default_constructor, pc, analysis_errors, global_defs,
          unique_defs, to_analyze_stack, analyzed_macros, idx_to_remove,
          frames, invoke_stack, label_stack, config, entry_point_code,
          stdout, exit_code, asm_stream,
          ref_widths, assembled, asm_pc, asm_rounds, ls_saved, ls_last>>

\* the state of main and of the analyser
mainVars == <<ast, entry_point, constant_overrides, evm_version,
              add_default_constructor, pc, analysis_errors, global_defs,
              unique_defs, to_analyze_stack, analyzed_macros, idx_to_remove,
              frames, invoke_stack, label_stack, entry_point_code, stdout,
              exit_code>>

\* the state of a run of the assembler
asmVars == <<asm_stream, ref_widths, assembled, asm_pc, asm_rounds>>

\* what a user of a LabelStack keeps beside it
lsVars == <<ls_saved, ls_last>>

----------------------------------------------------------------------------
(* Generic helpers *)

Range(s) == {s[i] : i \in DOMAIN s}

Last(s) == s[Len(s)]

Front(s) == SubSeq(s, 1, Len(s) - 1)

RECURSIVE Concat(_)
Concat(ss) == IF ss = <<>> THEN <<>> ELSE Head(ss) \o Concat(Tail(ss))

\* a faulty removal that pops the last element whatever the position
RemoveAt_pop(s, k) == SubSeq(s, 1, Len(s) - 1)

\* Vec::remove(index): drops the element at a (1-based) position
RemoveAt(s, k) == SubSeq(s, 1, k - 1) \o SubSeq(s, k + 1, Len(s))

\* The identifiers the modelled programs use, in the byte order in which a
\* BTreeMap<&str, _> iterates its keys.
NameOrder == <<"A", "B", "F", "G", "K", "MAIN", "NOPE", "T", "lbl", "x", "y">>

Rank(n) == CHOOSE i \in DOMAIN NameOrder : NameOrder[i] = n

\* keys of a BTreeMap in iteration order
RECURSIVE SortedKeys(_)
SortedKeys(S) ==
    IF S = {} THEN <<>>
    ELSE LET least == CHOOSE n \in S : \A o \in S : Rank(n) <= Rank(o)
         IN <<least>> \o SortedKeys(S \ {least})

----------------------------------------------------------------------------
(* AST (crates/ast/src/ast.rs) *)

\* Instruction
Op(o)                  == [t |-> "Op", name |-> o, value |-> 0, args |-> <<>>]
VariablePush(v)        == [t |-> "VariablePush", name |-> "", value |-> v, args |-> <<>>]
LabelReference(l)      == [t |-> "LabelReference", name |-> l, value |-> 0, args |-> <<>>]
MacroArgReference(a)   == [t |-> "MacroArgReference", name |-> a, value |-> 0, args |-> <<>>]
ConstantReference(c)   == [t |-> "ConstantReference", name |-> c, value |-> 0, args |-> <<>>]

\* MacroStatement::LabelDefinition
LabelDefinition(l)     == [t |-> "LabelDefinition", name |-> l, value |-> 0, args |-> <<>>]

\* Invoke
InvokeMacro(n, a)      == [t |-> "InvokeMacro", name |-> n, value |-> 0, args |-> a]
BuiltinTableStart(n)   == [t |-> "BuiltinTableStart", name |-> n, value |-> 0, args |-> <<>>]
BuiltinTableSize(n)    == [t |-> "BuiltinTableSize", name |-> n, value |-> 0, args |-> <<>>]
BuiltinCodeSize(n)     == [t |-> "BuiltinCodeSize", name |-> n, value |-> 0, args |-> <<>>]
BuiltinCodeOffset(n)   == [t |-> "BuiltinCodeOffset", name |-> n, value |-> 0, args |-> <<>>]
BuiltinFuncSig(n)      == [t |-> "BuiltinFuncSig", name |-> n, value |-> 0, args |-> <<>>]
BuiltinEventHash(n)    == [t |-> "BuiltinEventHash", name |-> n, value |-> 0, args |-> <<>>]
BuiltinError(n)        == [t |-> "BuiltinError", name |-> n, value |-> 0, args |-> <<>>]

InstructionKinds == {"Op", "VariablePush", "LabelReference",
                     "MacroArgReference", "ConstantReference"}

\* Definition / RootSection.  expr is a ConstExpr: [fsp, value]; data is the
\* byte buffer of a code table.
Macro(n, a, b)   == [kind |-> "Macro", name |-> n, args |-> a, body |-> b,
                     expr |-> [fsp |-> FALSE, value |-> 0], data |-> <<>>]
Constant(n, e)   == [kind |-> "Constant", name |-> n, args |-> <<>>, body |-> <<>>,
                     expr |-> e, data |-> <<>>]
Value(v)             == [fsp |-> FALSE, value |-> v]
FreeStoragePointer   == [fsp |-> TRUE, value |-> 0]
CodeTable(n, d)  == [kind |-> "CodeTable", name |-> n, args |-> <<>>, body |-> <<>>,
                     expr |-> [fsp |-> FALSE, value |-> 0], data |-> d]
Jumptable(n, size, labels) ==
    [kind |-> "Jumptable", name |-> n, args |-> <<>>, body |-> <<>>,
     expr |-> [fsp |-> FALSE, value |-> 0], data |-> <<>>,
     label_size |-> size, labels |-> labels]
Include          == [kind |-> "Include", name |-> "", args |-> <<>>, body |-> <<>>,
                     expr |-> [fsp |-> FALSE, value |-> 0], data |-> <<>>]

\* IdentifiableNode::ident of the definition at position d of the file
ident(d) == ast[d].name

----------------------------------------------------------------------------
(* LabelStack (crates/analysis/src/label_stack.rs) *)

LabelStack_new == [context_sizes |-> <<>>, label_stack |-> <<>>]

\* Option<V>
None == <<>>
Some(v) == <<v>>

\* a call of a LabelStack method and its result
Call(op, result) == [op |-> op, result |-> result]

enter_context(ls) ==
    [ls EXCEPT !.context_sizes = Append(@, Len(ls.label_stack))]

\* a faulty leave_context that drops the bindings of every context
leave_context_clear(ls) ==
    IF ls.context_sizes = <<>> THEN ls
    ELSE [context_sizes |-> Front(ls.context_sizes), label_stack |-> <<>>]

\* a faulty leave_context that closes the context but keeps its labels
leave_context_keep(ls) ==
    IF ls.context_sizes = <<>> THEN ls
    ELSE [ls EXCEPT !.context_sizes = Front(@)]

\* leave_context: None (nothing changes) when no context is open
leave_context(ls) ==
    IF ls.context_sizes = <<>> THEN ls
    ELSE [context_sizes |-> Front(ls.context_sizes),
          label_stack   |-> SubSeq(ls.label_stack, 1, Last(ls.context_sizes))]

\* what leave_context returns: None, or Some(previous_size)
leave_context_value(ls) ==
    IF ls.context_sizes = <<>> THEN None ELSE Some(Last(ls.context_sizes))

insert(ls, label, value) ==
    [ls EXCEPT !.label_stack = Append(@, <<label, value>>)]

\* get: newest binding first; "None" is modelled by the empty sequence
get(ls, target_label) ==
    LET hits == {k \in DOMAIN ls.label_stack : ls.label_stack[k][1] = target_label}
    IN IF hits = {} THEN <<>>
       ELSE <<ls.label_stack[CHOOSE k \in hits : \A o \in hits : o <= k][2]>>

contains(ls, label) == get(ls, label) # <<>>

\* LabelStack<()>::add
add(ls, label) == insert(ls, label, 0)

RECURSIVE add_all(_, _)
add_all(ls, labels) ==
    IF labels = <<>> THEN ls ELSE add_all(add(ls, Head(labels)), Tail(labels))

----------------------------------------------------------------------------
(* Diagnostics (crates/analysis/src/errors.rs, AnalysisError) *)

\* One shape for every variant: scope is the position of the macro in the
\* file (0 when the variant has none), at is the place of the offending node
\* <<macro, statement, argument>>, items the list a variant carries.
Diag(kind, scope, name, chain, items, def_type, at) ==
    [kind |-> kind, scope |-> scope, name |-> name, invocation_chain |-> chain,
     items |-> items, def_type |-> def_type, at |-> at]

DefinitionNameCollision(collided, duplicate_name) ==
    Diag("DefinitionNameCollision", 0, duplicate_name, <<>>, collided, "", <<>>)
RecursiveMacroInvocation(chain) ==
    Diag("RecursiveMacroInvocation", 0, "", chain, <<>>, "", <<>>)
RecursiveCodeInclusion(linking_inclusions) ==
    Diag("RecursiveCodeInclusion", 0, "", <<>>, linking_inclusions, "", <<>>)
LabelNotFound(scope, chain, not_found, at) ==
    Diag("LabelNotFound", scope, not_found, chain, <<>>, "", at)
MacroArgNotFound(scope, not_found, at) ==
    Diag("MacroArgNotFound", scope, not_found, <<>>, <<>>, "", at)
TableLabelNotFound(scope, table_ref, not_found, at) ==
    Diag("TableLabelNotFound", scope, not_found, <<>>, <<table_ref>>, "", at)
EntryPointNotFound(name) ==
    Diag("EntryPointNotFound", 0, name, <<>>, <<>>, "", <<>>)
DefinitionNotFound(scope, def_type, not_found, at) ==
    Diag("DefinitionNotFound", scope, not_found, <<>>, <<>>, def_type, at)
EntryPointHasArgs(target) ==
    Diag("EntryPointHasArgs", target, "", <<>>, <<>>, "", <<>>)
MacroArgumentCountMismatch(scope, invoke, at, target) ==
    Diag("MacroArgumentCountMismatch", scope, invoke, <<>>, <<target>>, "", at)
DuplicateLabelDefinition(scope, duplicates) ==
    Diag("DuplicateLabelDefinition", scope, "", <<>>, duplicates, "", <<>>)
DuplicateMacroArgDefinition(scope, duplicates) ==
    Diag("DuplicateMacroArgDefinition", scope, "", <<>>, duplicates, "", <<>>)
NotYetSupported(intent, at) ==
    Diag("NotYetSupported", 0, "", <<>>, <<>>, intent, at)
NoConstantToOverride(name) ==
    Diag("NoConstantToOverride", 0, name, <<>>, <<>>, "", <<>>)

----------------------------------------------------------------------------
(* crates/analysis/src/lib.rs: global passes *)

\* A node handed to build_ident_map: its identifier and the node itself
Node(id, n) == [ident |-> id, node |-> n]

\* build_ident_map: fold the nodes into name -> nodes, in insertion order
RECURSIVE build_ident_map_into(_, _)
build_ident_map_into(ident_map, nodes) ==
    IF nodes = <<>> THEN ident_map
    ELSE LET n     == Head(nodes)
             entry == IF n.ident \in DOMAIN ident_map THEN ident_map[n.ident] ELSE <<>>
         IN build_ident_map_into(
                [k \in DOMAIN ident_map \cup {n.ident} |->
                    IF k = n.ident THEN Append(entry, n.node) ELSE ident_map[k]],
                Tail(nodes))

build_ident_map(nodes) == build_ident_map_into(<<>>, nodes)

in_ident_map(ident_map, id) ==
    (IF id \in DOMAIN ident_map THEN Len(ident_map[id]) ELSE 0) > 0

\* the Definition sections of the file, as nodes (main.rs filter_map)
DefinitionNodes ==
    LET idxs == SelectSeq([i \in 1..Len(ast) |-> i], LAMBDA i : ast[i].kind # "Include")
    IN [k \in 1..Len(idxs) |-> Node(ast[idxs[k]].name, idxs[k])]

\* the diagnostics of the Include sections (main.rs filter_map)
IncludeErrors ==
    LET idxs == SelectSeq([i \in 1..Len(ast) |-> i], LAMBDA i : ast[i].kind = "Include")
    IN [k \in 1..Len(idxs) |-> NotYetSupported("Huff '#include'", <<idxs[k], 0, 0>>)]

\* a faulty analyze_global_for_dups that maps a collided name to its first
\* definition
analyze_global_for_dups_keep_first(defs) ==
    [n \in {k \in DOMAIN defs : Len(defs[k]) >= 1} |-> defs[n][1]]

\* analyze_global_for_dups: the returned mapping ...
analyze_global_for_dups(defs) ==
    LET singles == {n \in DOMAIN defs : Len(defs[n]) = 1}
    IN [n \in singles |-> defs[n][1]]

\* ... and the diagnostics it emits, in the iteration order of the BTreeMap
analyze_global_for_dups_errors(defs) ==
    LET many == SortedKeys({n \in DOMAIN defs : Len(defs[n]) >= 2})
    IN [k \in 1..Len(many) |-> DefinitionNameCollision(defs[many[k]], many[k])]

\* macro global_exists!
global_exists(defs, id, kinds) ==
    IF id \in DOMAIN defs
    THEN \E k \in DOMAIN defs[id] : ast[defs[id][k]].kind \in kinds
    ELSE FALSE

----------------------------------------------------------------------------
(* The worklist of main and the override check *)

\* CodeInclusionFrame::top: the worklist entry of a name (main reads .name)
CodeInclusionFrame_top(name) == [name |-> name]

\* const_overrides: verify_constants_to_be_overriden_defined (spec 4.A)
verify_constants_to_be_overriden_defined(defs, overrides) ==
    LET bad == SelectSeq(overrides,
                   LAMBDA o : ~global_exists(defs, o.name, {"Constant"}))
    IN [k \in 1..Len(bad) |-> NoConstantToOverride(bad[k].name)]

----------------------------------------------------------------------------
(* MacroAnalysis (crates/analysis/src/lib.rs) *)

\* an activation of MacroAnalysis::analyze for the macro at position m:
\* i the next body statement, pending the definitions still to be run for
\* the invocation at statement i
Frame(m, stage, i, pending) == [m |-> m, stage |-> stage, i |-> i, pending |-> pending]

\* an entry of invoke_stack: (self.m, name)
InvokeEntry(m, name, i) == [m |-> m, name |-> name, stmt |-> i]

\* the label definitions of a macro body, as nodes
LabelNodes(m) ==
    LET idxs == SelectSeq([i \in 1..Len(ast[m].body) |-> i],
                          LAMBDA i : ast[m].body[i].t = "LabelDefinition")
    IN [k \in 1..Len(idxs) |-> Node(ast[m].body[idxs[k]].name, idxs[k])]

ArgNodes(m) == [k \in 1..Len(ast[m].args) |-> Node(ast[m].args[k], k)]

\* the `defs.len() >= 2` passes over an ident map, in key order
duplicates_of(ident_map) ==
    LET dups == SortedKeys({n \in DOMAIN ident_map : Len(ident_map[n]) >= 2})
    IN [k \in 1..Len(dups) |-> ident_map[dups[k]]]

\* a faulty analyze_instruction that gives up once a diagnostic was emitted
analyze_instruction_first_error_only(defs, ls, stack, m, instruction, at) ==
    IF analysis_errors # <<>> THEN <<>>
    ELSE CASE instruction.t = "LabelReference" ->
                IF ~contains(ls, instruction.name)
                THEN <<LabelNotFound(m, stack, instruction.name, at)>> ELSE <<>>
          [] instruction.t = "MacroArgReference" ->
                IF ~in_ident_map(build_ident_map(ArgNodes(m)), instruction.name)
                THEN <<MacroArgNotFound(m, instruction.name, at)>> ELSE <<>>
          [] instruction.t = "ConstantReference" ->
                IF ~global_exists(defs, instruction.name, {"Constant"})
                THEN <<DefinitionNotFound(m, "constant", instruction.name, at)>>
                ELSE <<>>
          [] OTHER -> <<>>

\* a faulty check that takes every <param> for a parameter of the macro
analyze_instruction_params_unchecked(defs, ls, stack, m, instruction, at) ==
    CASE instruction.t = "LabelReference" ->
            IF ~contains(ls, instruction.name)
            THEN <<LabelNotFound(m, stack, instruction.name, at)>> ELSE <<>>
      [] instruction.t = "ConstantReference" ->
            IF ~global_exists(defs, instruction.name, {"Constant"})
            THEN <<DefinitionNotFound(m, "constant", instruction.name, at)>> ELSE <<>>
      [] OTHER -> <<>>

\* analyze_instruction: the diagnostics of one instruction of macro m found
\* at place `at`, under the label stack ls and invocation stack stack
analyze_instruction(defs, ls, stack, m, instruction, at) ==
    CASE instruction.t = "LabelReference" ->
            IF ~contains(ls, instruction.name)
            THEN <<LabelNotFound(m, stack, instruction.name, at)>> ELSE <<>>
      [] instruction.t = "MacroArgReference" ->
            IF ~in_ident_map(build_ident_map(ArgNodes(m)), instruction.name)
            THEN <<MacroArgNotFound(m, instruction.name, at)>> ELSE <<>>
      [] instruction.t = "ConstantReference" ->
            IF ~global_exists(defs, instruction.name, {"Constant"})
            THEN <<DefinitionNotFound(m, "constant", instruction.name, at)>> ELSE <<>>
      [] OTHER -> <<>>

\* the macros a name resolves to, in definition order
macros_named(defs, name) ==
    IF name \in DOMAIN defs
    THEN SelectSeq(defs[name], LAMBDA d : ast[d].kind = "Macro")
    ELSE <<>>

\* a faulty check that looks at the direct caller only
is_recursive_invocation_direct(stack, m) ==
    stack # <<>> /\ ast[Last(stack).m].name = ast[m].name

\* the check at the head of analyze
is_recursive_invocation(stack, m) ==
    \E k \in DOMAIN stack : ast[stack[k].m].name = ast[m].name

\* the diagnostics of one builtin invocation (not __codesize/__codeoffset)
analyze_builtin(defs, m, invoke, at) ==
    CASE invoke.t \in {"BuiltinTableSize", "BuiltinTableStart"} ->
            (IF ~global_exists(defs, invoke.name, {"CodeTable", "Jumptable"})
             THEN <<DefinitionNotFound(m, "table", invoke.name, at)>> ELSE <<>>)
            \o <<NotYetSupported("__tablesize and __tableoffset", at)>>
      [] invoke.t \in {"BuiltinFuncSig", "BuiltinError"} ->
            (IF ~global_exists(defs, invoke.name, {"SolFunction", "SolError"})
             THEN <<DefinitionNotFound(m, "solidity function / error", invoke.name, at)>>
             ELSE <<>>)
            \o <<NotYetSupported("__FUNC_SIG and __ERROR", at)>>
      [] invoke.t = "BuiltinEventHash" ->
            (IF ~global_exists(defs, invoke.name, {"SolEvent"})
             THEN <<DefinitionNotFound(m, "solidity event", invoke.name, at)>> ELSE <<>>)
            \o <<NotYetSupported("__EVENT_HASH", at)>>

\* the diagnostics of a __codesize/__codeoffset before the worklist push
analyze_code_ref(defs, m, invoke, at) ==
    (IF ~global_exists(defs, invoke.name, {"Macro"})
     THEN <<DefinitionNotFound(m, "macro", invoke.name, at)>> ELSE <<>>)
    \o (IF \E k \in DOMAIN macros_named(defs, invoke.name) :
               Len(ast[macros_named(defs, invoke.name)[k]].args) > 0
        THEN <<NotYetSupported("code introspection for macros with arguments", at)>>
        ELSE <<>>)

\* a faulty push that forgets the referenced name
push_to_analyze_dropped(stack, name) == stack

\* self.macros_to_analyze.push(code_ref.ident())
push_to_analyze(stack, name) == Append(stack, CodeInclusionFrame_top(name))

Top == Last(frames)

SetTop(f) == [frames EXCEPT ![Len(frames)] = f]

\* analyze, up to the walk over the body: the recursion check, the label
\* scope and the duplicate checks
AnalyzeEnter ==
    /\ pc = "analyze" /\ frames # <<>> /\ Top.stage = "enter"
    /\ LET m == Top.m IN
       IF is_recursive_invocation(invoke_stack, m)
       THEN /\ analysis_errors' = Append(analysis_errors,
                                         RecursiveMacroInvocation(invoke_stack))
            /\ frames' = Front(frames)
            /\ UNCHANGED label_stack
       ELSE LET labels     == LabelNodes(m)
                macro_args == build_ident_map(ArgNodes(m))
            IN /\ label_stack' = add_all(enter_context(label_stack),
                                         [k \in 1..Len(labels) |-> labels[k].ident])
               /\ analysis_errors' = analysis_errors
                     \o [k \in DOMAIN duplicates_of(macro_args) |->
                            DuplicateMacroArgDefinition(m, duplicates_of(macro_args)[k])]
                     \o [k \in DOMAIN duplicates_of(build_ident_map(labels)) |->
                            DuplicateLabelDefinition(m,
                                duplicates_of(build_ident_map(labels))[k])]
               /\ frames' = SetTop(Frame(m, "body", 1, <<>>))
    /\ UNCHANGED <<asmVars, lsVars, ast, entry_point, constant_overrides, evm_version,
                   add_default_constructor, pc, global_defs, unique_defs,
                   to_analyze_stack, analyzed_macros, idx_to_remove,
                   invoke_stack, config, entry_point_code, stdout, exit_code>>

\* one statement of the body that is not a macro invocation
AnalyzeStatement ==
    /\ pc = "analyze" /\ frames # <<>> /\ Top.stage = "body"
    /\ Top.i <= Len(ast[Top.m].body)
    /\ LET m    == Top.m
           i    == Top.i
           stmt == ast[m].body[i]
           at   == <<m, i, 0>>
       IN /\ stmt.t # "InvokeMacro"
          /\ frames' = SetTop(Frame(m, "body", i + 1, <<>>))
          /\ IF stmt.t \in {"BuiltinCodeSize", "BuiltinCodeOffset"}
             THEN /\ analysis_errors' = analysis_errors
                        \o analyze_code_ref(global_defs, m, stmt, at)
                  /\ to_analyze_stack' = push_to_analyze(to_analyze_stack, stmt.name)
             ELSE /\ analysis_errors' = analysis_errors \o
                        (IF stmt.t = "LabelDefinition" THEN <<>>
                         ELSE IF stmt.t \in InstructionKinds
                         THEN analyze_instruction(global_defs, label_stack,
                                                  invoke_stack, m, stmt, at)
                         ELSE analyze_builtin(global_defs, m, stmt, at))
                  /\ UNCHANGED to_analyze_stack
    /\ UNCHANGED <<asmVars, lsVars, ast, entry_point, constant_overrides, evm_version,
                   add_default_constructor, pc, global_defs, unique_defs,
                   analyzed_macros, idx_to_remove, invoke_stack, label_stack,
                   config, entry_point_code, stdout, exit_code>>

\* Invoke::Macro up to the push on the invocation stack
AnalyzeInvoke ==
    /\ pc = "analyze" /\ frames # <<>> /\ Top.stage = "body"
    /\ Top.i <= Len(ast[Top.m].body)
    /\ LET m    == Top.m
           i    == Top.i
           stmt == ast[m].body[i]
       IN /\ stmt.t = "InvokeMacro"
          /\ analysis_errors' = analysis_errors
                \o Concat([j \in 1..Len(stmt.args) |->
                      analyze_instruction(global_defs, label_stack, invoke_stack,
                                          m, stmt.args[j], <<m, i, j>>)])
                \o (IF ~global_exists(global_defs, stmt.name, {"Macro"})
                    THEN <<DefinitionNotFound(m, "macro", stmt.name, <<m, i, 0>>)>>
                    ELSE <<>>)
          /\ invoke_stack' = Append(invoke_stack, InvokeEntry(m, stmt.name, i))
          /\ frames' = SetTop(Frame(m, "invoke", i, macros_named(global_defs, stmt.name)))
    /\ UNCHANGED <<asmVars, lsVars, ast, entry_point, constant_overrides, evm_version,
                   add_default_constructor, pc, global_defs, unique_defs,
                   to_analyze_stack, analyzed_macros, idx_to_remove, label_stack,
                   config, entry_point_code, stdout, exit_code>>

\* the for_each over the macros of the invoked name: the arity check and the
\* nested MacroAnalysis::run
AnalyzeRun ==
    /\ pc = "analyze" /\ frames # <<>> /\ Top.stage = "invoke"
    /\ Top.pending # <<>>
    /\ LET m      == Top.m
           i      == Top.i
           stmt   == ast[m].body[i]
           target == Head(Top.pending)
       IN /\ analysis_errors' = analysis_errors \o
                (IF Len(ast[target].args) # Len(stmt.args)
                 THEN <<MacroArgumentCountMismatch(m, stmt.name, <<m, i, 0>>, target)>>
                 ELSE <<>>)
          /\ frames' = Append(SetTop(Frame(m, "invoke", i, Tail(Top.pending))),
                              Frame(target, "enter", 1, <<>>))
    /\ UNCHANGED <<asmVars, lsVars, ast, entry_point, constant_overrides, evm_version,
                   add_default_constructor, pc, global_defs, unique_defs,
                   to_analyze_stack, analyzed_macros, idx_to_remove,
                   invoke_stack, label_stack, config, entry_point_code,
                   stdout, exit_code>>

\* the pop that ends Invoke::Macro
AnalyzeInvokeDone ==
    /\ pc = "analyze" /\ frames # <<>> /\ Top.stage = "invoke"
    /\ Top.pending = <<>>
    /\ invoke_stack' = Front(invoke_stack)
    /\ frames' = SetTop(Frame(Top.m, "body", Top.i + 1, <<>>))
    /\ UNCHANGED <<asmVars, lsVars, ast, entry_point, constant_overrides, evm_version,
                   add_default_constructor, pc, analysis_errors, global_defs,
                   unique_defs, to_analyze_stack, analyzed_macros,
                   idx_to_remove, label_stack, config, entry_point_code,
                   stdout, exit_code>>

\* the end of analyze
AnalyzeLeave ==
    /\ pc = "analyze" /\ frames # <<>> /\ Top.stage = "body"
    /\ Top.i > Len(ast[Top.m].body)
    /\ label_stack' = leave_context(label_stack)
    /\ frames' = Front(frames)
    /\ UNCHANGED <<asmVars, lsVars, ast, entry_point, constant_overrides, evm_version,
                   add_default_constructor, pc, analysis_errors, global_defs,
                   unique_defs, to_analyze_stack, analyzed_macros,
                   idx_to_remove, invoke_stack, config, entry_point_code,
                   stdout, exit_code>>

----------------------------------------------------------------------------
(* U256 values and opcodes (alloy_primitives::U256, evm_glue::opcodes)     *)

\* A U256 is kept as its big-endian bytes without leading zero bytes, so
\* that U256::byte_len is the length of the sequence.
RECURSIVE from_be_slice(_)
from_be_slice(bytes) ==
    IF bytes # <<>> /\ Head(bytes) = 0 THEN from_be_slice(Tail(bytes)) ELSE bytes

RECURSIVE U256_from(_)
U256_from(n) == IF n <= 0 THEN <<>> ELSE Append(U256_from(n \div 256), n % 256)

RECURSIVE U256_to_nat(_)
U256_to_nat(v) == IF v = <<>> THEN 0 ELSE U256_to_nat(Front(v)) * 256 + Last(v)

byte_len(v) == Len(v)

\* U256::BYTES, the longest immediate of a push
WordSize == 32

\* to_be_bytes::<32>()[32 - n..32] for n >= byte_len(v)
be_bytes(v, n) == [k \in 1..(n - Len(v)) |-> 0] \o v

\* the encoding of the opcodes the model uses
OpByte(o) ==
    CASE o = "STOP" -> 0    [] o = "ADD" -> 1       [] o = "CODECOPY" -> 57
      [] o = "RETURNDATASIZE" -> 61  [] o = "MSTORE" -> 82 [] o = "JUMP" -> 86
      [] o = "MSIZE" -> 89  [] o = "JUMPDEST" -> 91 [] o = "PUSH0" -> 95
      [] o = "DUP1" -> 128  [] o = "RETURN" -> 243

\* Opcode::PUSHn(data): the opcode byte followed by its immediate
PUSH(n, data) == <<OpByte("PUSH0") + n>> \o data

\* crates/ast/src/util.rs: u256_as_push
u256_as_push(value) ==
    IF byte_len(value) <= 1 THEN PUSH(1, be_bytes(value, 1))
    ELSE PUSH(byte_len(value), be_bytes(value, byte_len(value)))

----------------------------------------------------------------------------
(* Assembly items (evm_glue::assembly::Asm) *)

AsmOp(bytes)  == [t |-> "Op", bytes |-> bytes, ref_type |-> "", a |-> 0, b |-> 0]
Mark(id)      == [t |-> "Mark", bytes |-> <<>>, ref_type |-> "", a |-> id, b |-> 0]
Data(bytes)   == [t |-> "Data", bytes |-> bytes, ref_type |-> "", a |-> 0, b |-> 0]
\* Asm::Ref(MarkRef { ref_type, is_pushed: true, set_size: None })
Direct(m)     == [t |-> "Ref", bytes |-> <<>>, ref_type |-> "Direct", a |-> m, b |-> 0]
Delta(s, e)   == [t |-> "Ref", bytes |-> <<>>, ref_type |-> "Delta", a |-> s, b |-> e]

\* a faulty u256_to_asm that emits PUSH0 whatever the EVM version allows
u256_to_asm_ungated(value, push0) ==
    AsmOp(IF byte_len(value) = 0 THEN <<OpByte("PUSH0")>> ELSE u256_as_push(value))

\* compilation/src/lib.rs: u256_to_asm
u256_to_asm(value, push0) ==
    AsmOp(IF byte_len(value) = 0 /\ push0 THEN <<OpByte("PUSH0")>>
          ELSE u256_as_push(value))

----------------------------------------------------------------------------
(* The assembler (evm_glue::assemble_minimized / assemble_maximized, an    *)
(* external library: modelled after the specification, section 4.E)        *)

\* the width every pushed reference starts with in minimised mode
MinRefWidth == 1

\* the width of every pushed reference in maximised mode
MaxRefWidth == 32

\* the bytes item k occupies when the references have the widths `widths`
item_size(asm, widths, k) ==
    IF asm[k].t = "Ref" THEN 1 + widths[k] ELSE Len(asm[k].bytes)

RECURSIVE offset_before(_, _, _)
offset_before(asm, widths, k) ==
    IF k <= 1 THEN 0
    ELSE offset_before(asm, widths, k - 1) + item_size(asm, widths, k - 1)

mark_defined(asm, id) == \E k \in DOMAIN asm : asm[k].t = "Mark" /\ asm[k].a = id

\* offset_of(m): the offset of the Mark item of m
offset_of(asm, widths, id) ==
    offset_before(asm, widths,
        CHOOSE k \in DOMAIN asm : /\ asm[k].t = "Mark" /\ asm[k].a = id
                                  /\ \A j \in DOMAIN asm :
                                        (asm[j].t = "Mark" /\ asm[j].a = id) => k <= j)

\* the integer a reference resolves to
resolve(asm, widths, ref) ==
    IF ref.ref_type = "Direct" THEN offset_of(asm, widths, ref.a)
    ELSE offset_of(asm, widths, ref.b) - offset_of(asm, widths, ref.a)

\* a faulty width that keeps one spare byte
needed_width_padded(value) == byte_len(U256_from(value)) + 1

\* the smallest k in 1..32 with k >= bytelen(value)
needed_width(value) ==
    IF byte_len(U256_from(value)) < MinRefWidth THEN MinRefWidth
    ELSE byte_len(U256_from(value))

\* a faulty start from the widest push
initial_widths_widest(asm) == [k \in DOMAIN asm |-> IF asm[k].t = "Ref" THEN MaxRefWidth ELSE 0]

initial_widths(asm) == [k \in DOMAIN asm |-> IF asm[k].t = "Ref" THEN MinRefWidth ELSE 0]

\* a faulty maximised mode that keeps the starting widths of the other mode
maximized_widths_unset(asm) == initial_widths(asm)

maximized_widths(asm) == [k \in DOMAIN asm |-> IF asm[k].t = "Ref" THEN MaxRefWidth ELSE 0]

\* one round: the widths the references need under the offsets of `widths`
next_widths(asm, widths) ==
    [k \in DOMAIN asm |->
        IF asm[k].t = "Ref" THEN needed_width(resolve(asm, widths, asm[k])) ELSE 0]

RECURSIVE fixed_point_widths(_, _)
fixed_point_widths(asm, widths) ==
    IF next_widths(asm, widths) = widths THEN widths
    ELSE fixed_point_widths(asm, next_widths(asm, widths))

\* a faulty encode that writes the values of the first round
encode_stale(asm, widths) ==
    Concat([k \in DOMAIN asm |->
        IF asm[k].t = "Ref"
        THEN PUSH(widths[k],
                  be_bytes(U256_from(resolve(asm, initial_widths(asm), asm[k])),
                           widths[k]))
        ELSE asm[k].bytes])

\* the bytes of the stream under the chosen widths
encode(asm, widths) ==
    Concat([k \in DOMAIN asm |->
        IF asm[k].t = "Ref"
        THEN PUSH(widths[k], be_bytes(U256_from(resolve(asm, widths, asm[k])), widths[k]))
        ELSE asm[k].bytes])

\* every referenced mark has a Mark item, every delta is non-negative
well_formed(asm) ==
    \A k \in DOMAIN asm : asm[k].t = "Ref" =>
        /\ mark_defined(asm, asm[k].a)
        /\ asm[k].ref_type = "Delta" => mark_defined(asm, asm[k].b)

assemble_minimized(asm) == encode(asm, fixed_point_widths(asm, initial_widths(asm)))

assemble_maximized(asm) == encode(asm, maximized_widths(asm))

\* a result of code generation: the bytes, or the way it failed
Ok(bytes)    == [status |-> "ok", bytes |-> bytes]
Failed(how)  == [status |-> how, bytes |-> <<>>]

\* CompileGlobals::assemble (the unwrap panics on an assembler error)
assemble(globals, asm) ==
    IF ~well_formed(asm) THEN Failed("panic")
    ELSE Ok(IF globals.minimize THEN assemble_minimized(asm) ELSE assemble_maximized(asm))

\* The rounds of the assembler as steps, on the stream in `asm_stream`.

\* the widths every pushed reference starts with
AsmStart ==
    /\ asm_pc = "start"
    /\ ref_widths' = IF config.minimize THEN initial_widths(asm_stream)
                                         ELSE maximized_widths(asm_stream)
    /\ asm_pc' = "rounds"
    /\ asm_rounds' = 0
    /\ UNCHANGED <<mainVars, lsVars, config, asm_stream, assembled>>

\* one more round of the minimised mode: some width changes
AsmRound ==
    /\ asm_pc = "rounds" /\ config.minimize
    /\ next_widths(asm_stream, ref_widths) # ref_widths
    /\ ref_widths' = next_widths(asm_stream, ref_widths)
    /\ asm_rounds' = asm_rounds + 1
    /\ UNCHANGED <<mainVars, lsVars, config, asm_stream, assembled, asm_pc>>

\* no width changes any more (or the mode is maximised): emit the bytes
AsmEncode ==
    /\ asm_pc = "rounds"
    /\ ~config.minimize \/ next_widths(asm_stream, ref_widths) = ref_widths
    /\ assembled' = encode(asm_stream, ref_widths)
    /\ asm_pc' = "done"
    /\ UNCHANGED <<mainVars, lsVars, config, asm_stream, ref_widths, asm_rounds>>

----------------------------------------------------------------------------
(* Constants (crates/compilation/src/lib.rs) *)

\* evalute_constants over the names of the unique mapping in key order
RECURSIVE evalute_constants_from(_, _, _)
evalute_constants_from(defs, names, free_pointer) ==
    IF names = <<>> THEN <<>>
    ELSE LET name == Head(names)
             def  == ast[defs[name]]
         IN IF def.kind # "Constant"
            THEN evalute_constants_from(defs, Tail(names), free_pointer)
            ELSE IF def.expr.fsp
            THEN (name :> U256_from(free_pointer))
                 @@ evalute_constants_from(defs, Tail(names), free_pointer + 1)
            ELSE (name :> def.expr.value)
                 @@ evalute_constants_from(defs, Tail(names), free_pointer)

\* a faulty evalute_constants that numbers the free storage pointers in the
\* order of the source file
evalute_constants_source_order(defs) ==
    LET idxs == SelectSeq([i \in 1..Len(ast) |-> i],
                          LAMBDA i : \E n \in DOMAIN defs : defs[n] = i)
    IN evalute_constants_from(defs, [k \in 1..Len(idxs) |-> ast[idxs[k]].name], 0)

evalute_constants(defs) == evalute_constants_from(defs, SortedKeys(DOMAIN defs), 0)

\* the overrides replace the mapped value by name (spec 4.A)
RECURSIVE apply_constant_overrides(_, _)
apply_constant_overrides(constants, overrides) ==
    IF overrides = <<>> THEN constants
    ELSE apply_constant_overrides(
            (Head(overrides).name :> Head(overrides).value) @@ constants,
            Tail(overrides))

\* a faulty CompileGlobals::new that leaves the overridden constants out of
\* the evaluation, so that the free storage pointers after them shift
CompileGlobals_new_skipping(minimize, push0, defs, overrides) ==
    [minimize |-> minimize, allow_push0 |-> push0, defs |-> defs,
     constants |-> apply_constant_overrides(
        evalute_constants(
            [n \in DOMAIN defs \ {overrides[k].name : k \in DOMAIN overrides}
                |-> defs[n]]),
        overrides)]

\* CompileGlobals::new
CompileGlobals_new(minimize, push0, defs, overrides) ==
    [minimize |-> minimize, allow_push0 |-> push0, defs |-> defs,
     constants |-> apply_constant_overrides(evalute_constants(defs), overrides)]

----------------------------------------------------------------------------
(* The expander (crates/compilation/src/lib.rs) *)

\* the depth of nested calls at which the native stack is taken to overflow
MaxDepth == 8

IncludedMacro(name, start_id, end_id) ==
    [name |-> name, start_id |-> start_id, end_id |-> end_id]

\* IncludedMacro::size_ref / start_ref, IncludedCodeTable::size_ref / start_ref
size_ref(included)  == Delta(included.start_id, included.end_id)

\* a faulty start_ref that takes the other mark of the pair
start_ref_of_end(included) == Direct(included.end_id)

start_ref(included) == Direct(included.start_id)

IncludedCodeTable(name, start_id, end_id, data) ==
    [name |-> name, referenced |-> FALSE, start_id |-> start_id,
     end_id |-> end_id, data |-> data]

\* The state generate_for_macro works on: mark_tracker (the next mark),
\* label_stack, program_data_deps and asm; status records a panic.
GenState(mark, ls, macros, tables, asm, status) ==
    [mark_tracker |-> mark, label_stack |-> ls, included_macros |-> macros,
     included_code_tables |-> tables, asm |-> asm, status |-> status]

\* the abstract 4-byte selector of a Solidity function (keccak is external)
compute_selector(name) == <<Rank(name), 5, 156, 187>>

\* instruction_to_asm: <<item>>, or <<>> when an unwrap panics
instruction_to_asm(globals, args, ls, i) ==
    CASE i.t = "Op" -> <<AsmOp(<<OpByte(i.name)>>)>>
      [] i.t = "VariablePush" -> <<u256_to_asm(i.value, globals.allow_push0)>>
      [] i.t = "LabelReference" ->
            IF get(ls, i.name) = <<>> THEN <<>> ELSE <<Direct(get(ls, i.name)[1])>>
      [] i.t = "ConstantReference" ->
            IF i.name \in DOMAIN globals.constants
            THEN <<u256_to_asm(globals.constants[i.name], globals.allow_push0)>>
            ELSE <<>>
      [] i.t = "MacroArgReference" ->
            IF i.name \in DOMAIN args THEN <<args[i.name]>> ELSE <<>>

\* the label definitions of a body get their marks (lib.rs 222-226)
RECURSIVE push_labels(_, _)
push_labels(g, body) ==
    IF body = <<>> THEN g
    ELSE push_labels(
            IF Head(body).t = "LabelDefinition"
            THEN [g EXCEPT !.label_stack = insert(@, Head(body).name, g.mark_tracker),
                           !.mark_tracker = @ + 1]
            ELSE g,
            Tail(body))

\* BTreeMap::from_iter(names.zip(arg_values)): later names win, the shorter
\* of the two lists ends the zip
current_args_of(names, arg_values) ==
    LET n == IF Len(names) < Len(arg_values) THEN Len(names) ELSE Len(arg_values)
    IN [a \in {names[k] : k \in 1..n} |->
          arg_values[CHOOSE k \in 1..n : names[k] = a /\ \A j \in 1..n : names[j] = a => j <= k]]

\* a faulty registration that never looks the name up
include_macro_again(g, name) ==
    [g EXCEPT !.included_macros =
                  Append(@, IncludedMacro(name, g.mark_tracker, g.mark_tracker + 1)),
              !.mark_tracker = @ + 2]

\* the included macro of a name, registering it when it is new (lib.rs 256-297)
include_macro(g, name) ==
    IF \E k \in DOMAIN g.included_macros : g.included_macros[k].name = name
    THEN g
    ELSE [g EXCEPT !.included_macros =
                        Append(@, IncludedMacro(name, g.mark_tracker, g.mark_tracker + 1)),
                   !.mark_tracker = @ + 2]

find_included(list, name) ==
    list[CHOOSE k \in DOMAIN list :
            list[k].name = name /\ \A j \in DOMAIN list : list[j].name = name => k <= j]

panic(g) == [g EXCEPT !.status = "panic"]

emit(g, items) == [g EXCEPT !.asm = @ \o items]

RECURSIVE generate_for_macro(_, _, _, _, _)
RECURSIVE generate_statement(_, _, _, _, _, _)
RECURSIVE generate_statements(_, _, _, _, _, _)

\* the arguments evaluated without the caller's argument environment
evaluate_args_without_environment(globals, current_args, ls, args) ==
    LET items == [k \in DOMAIN args |-> instruction_to_asm(globals, current_args_of(<<>>, <<>>), ls, args[k])]
    IN IF \E k \in DOMAIN items : items[k] = <<>> THEN [ok |-> FALSE, values |-> <<>>]
       ELSE [ok |-> TRUE, values |-> [k \in DOMAIN items |-> items[k][1]]]

\* the arguments of an invocation, evaluated in the caller (lib.rs 246-249);
\* <<>> in place of the list when one of them panics
evaluate_args(globals, current_args, ls, args) ==
    LET items == [k \in DOMAIN args |-> instruction_to_asm(globals, current_args, ls, args[k])]
    IN IF \E k \in DOMAIN items : items[k] = <<>> THEN [ok |-> FALSE, values |-> <<>>]
       ELSE [ok |-> TRUE, values |-> [k \in DOMAIN items |-> items[k][1]]]

\* one statement of the body of `current` (lib.rs 228-337)
generate_statement(globals, current, current_args, g, stmt, depth) ==
    CASE stmt.t = "LabelDefinition" ->
            emit(g, <<Mark(get(g.label_stack, stmt.name)[1]), AsmOp(<<OpByte("JUMPDEST")>>)>>)
      [] stmt.t = "InvokeMacro" ->
            IF stmt.name \notin DOMAIN globals.defs
               \/ ast[globals.defs[stmt.name]].kind # "Macro"
            THEN panic(g)
            ELSE LET evaluated == evaluate_args(globals, current_args, g.label_stack, stmt.args)
                 IN IF ~evaluated.ok THEN panic(g)
                    ELSE generate_for_macro(globals, globals.defs[stmt.name],
                                            evaluated.values, g, depth + 1)
      [] stmt.t = "BuiltinCodeSize" ->
            LET h == include_macro(g, stmt.name)
            IN emit(h, <<size_ref(find_included(h.included_macros, stmt.name))>>)
      [] stmt.t = "BuiltinCodeOffset" ->
            LET h == include_macro(g, stmt.name)
            IN emit(h, <<start_ref(find_included(h.included_macros, stmt.name))>>)
      [] stmt.t \in {"BuiltinTableStart", "BuiltinTableSize"} ->
            IF ~\E k \in DOMAIN g.included_code_tables :
                    g.included_code_tables[k].name = stmt.name
            THEN panic(g)
            ELSE LET table == find_included(g.included_code_tables, stmt.name)
                     h == [g EXCEPT !.included_code_tables =
                              [k \in DOMAIN @ |->
                                  IF @[k] = table THEN [@[k] EXCEPT !.referenced = TRUE]
                                  ELSE @[k]]]
                 IN emit(h, <<IF stmt.t = "BuiltinTableStart"
                              THEN start_ref(table) ELSE size_ref(table)>>)
      [] stmt.t = "BuiltinFuncSig" ->
            IF stmt.name \notin DOMAIN globals.defs
               \/ ast[globals.defs[stmt.name]].kind # "SolFunction"
            THEN panic(g)
            ELSE emit(g, <<u256_to_asm(from_be_slice(compute_selector(stmt.name)),
                                       globals.allow_push0)>>)
      [] stmt.t \in {"BuiltinEventHash", "BuiltinError"} -> panic(g)
      [] OTHER ->
            LET item == instruction_to_asm(globals, current_args, g.label_stack, stmt)
            IN IF item = <<>> THEN panic(g) ELSE emit(g, item)

generate_statements(globals, current, current_args, g, body, depth) ==
    IF body = <<>> \/ g.status # "ok" THEN g
    ELSE generate_statements(globals, current, current_args,
            generate_statement(globals, current, current_args, g, Head(body), depth),
            Tail(body), depth)

\* generate_for_macro
generate_for_macro(globals, current, arg_values, g, depth) ==
    IF depth > MaxDepth THEN [g EXCEPT !.status = "overflow"]
    ELSE LET current_args == current_args_of(ast[current].args, arg_values)
             entered == push_labels([g EXCEPT !.label_stack = enter_context(@)],
                                    ast[current].body)
             done == generate_statements(globals, current, current_args, entered,
                                         ast[current].body, depth)
         IN IF done.status # "ok" THEN done
            ELSE [done EXCEPT !.label_stack = leave_context(@)]

\* the code tables of the unique mapping with their marks (lib.rs 83-98)
RECURSIVE code_tables_from(_, _, _)
code_tables_from(defs, names, mark) ==
    IF names = <<>> THEN <<>>
    ELSE IF ast[defs[Head(names)]].kind # "CodeTable"
    THEN code_tables_from(defs, Tail(names), mark)
    ELSE <<IncludedCodeTable(Head(names), mark, mark + 1, ast[defs[Head(names)]].data)>>
         \o code_tables_from(defs, Tail(names), mark + 2)

RECURSIVE generate_for_entrypoint(_, _, _)
RECURSIVE emit_included_macros(_, _, _, _)

\* lib.rs 128-130: Mark(start), Data(code of the section macro), Mark(end)
emit_section(asm, inc, code) ==
    asm \o <<Mark(inc.start_id), Data(code.bytes), Mark(inc.end_id)>>

\* the rest of the for_each once the code of the first section is known
emit_included_macros_after(globals, included, asm, depth, code) ==
    IF code.status # "ok" THEN [status |-> code.status, asm |-> asm]
    ELSE emit_included_macros(globals, Tail(included),
                              emit_section(asm, Head(included), code), depth)

\* lib.rs 117-131: the data sections of the included macros after the first;
\* the result is [status, asm]
emit_included_macros(globals, included, asm, depth) ==
    IF included = <<>> THEN [status |-> "ok", asm |-> asm]
    ELSE IF Head(included).name \notin DOMAIN globals.defs
            \/ ast[globals.defs[Head(included).name]].kind # "Macro"
    THEN [status |-> "panic", asm |-> asm]
    ELSE emit_included_macros_after(globals, included, asm, depth,
            generate_for_entrypoint(globals, globals.defs[Head(included).name], depth + 1))

\* a faulty drain that emits every code table of the file
emit_code_tables_all(tables) ==
    Concat([k \in DOMAIN tables |->
        <<Mark(tables[k].start_id), Data(tables[k].data), Mark(tables[k].end_id)>>])

\* lib.rs 133-141
emit_code_tables(tables) ==
    Concat([k \in DOMAIN tables |->
        IF tables[k].referenced
        THEN <<Mark(tables[k].start_id), Data(tables[k].data), Mark(tables[k].end_id)>>
        ELSE <<>>])

\* lib.rs 133-143: the table sections and Mark(end_id) close the stream
final_stream(tables, sections) ==
    sections.asm \o emit_code_tables(tables) \o <<Mark(1)>>

\* lib.rs 133-145: the closed stream goes to the assembler
finish_entrypoint(globals, tables, sections) ==
    IF sections.status # "ok" THEN Failed(sections.status)
    ELSE assemble(globals, final_stream(tables, sections))

\* lib.rs 117-145 once the entry point is expanded
emit_sections(globals, g, depth) ==
    IF g.status # "ok" THEN Failed(g.status)
    ELSE finish_entrypoint(globals, g.included_code_tables,
            emit_included_macros(globals, Tail(g.included_macros), g.asm, depth))

\* a faulty start that hands the labels a fresh mark counter
entrypoint_state_fresh_counter(globals, entry, tables) ==
    GenState(0, LabelStack_new,
             <<IncludedMacro(ast[entry].name, 0, 1)>>, tables, <<Mark(0)>>, "ok")

\* lib.rs 72-106: the state generate_for_macro starts from
entrypoint_state(globals, entry, tables) ==
    GenState(2 + 2 * Len(tables), LabelStack_new,
             <<IncludedMacro(ast[entry].name, 0, 1)>>, tables, <<Mark(0)>>, "ok")

\* generate_for_entrypoint
generate_for_entrypoint(globals, entry, depth) ==
    IF depth > MaxDepth THEN Failed("overflow")
    ELSE emit_sections(globals,
            generate_for_macro(globals, entry, <<>>,
                entrypoint_state(globals, entry,
                    code_tables_from(globals.defs, SortedKeys(DOMAIN globals.defs), 2)),
                depth + 1),
            depth)

\* a faulty constructor that returns the window from offset 0 for every length
generate_default_constructor_left(runtime) ==
    IF Len(runtime) = 0 THEN <<>>
    ELSE <<AsmOp(u256_as_push(from_be_slice(runtime))),
           AsmOp(<<OpByte("RETURNDATASIZE")>>), AsmOp(<<OpByte("MSTORE")>>),
           AsmOp(PUSH(1, <<Len(runtime)>>)), AsmOp(<<OpByte("RETURNDATASIZE")>>),
           AsmOp(<<OpByte("RETURN")>>)>>

\* a faulty constructor that copies from the end mark of the runtime
generate_default_constructor_from_end(runtime) ==
    IF Len(runtime) = 0 THEN <<>>
    ELSE IF Len(runtime) <= 32
    THEN IF Len(runtime) = 32
         THEN <<AsmOp(u256_as_push(from_be_slice(runtime))),
                AsmOp(<<OpByte("RETURNDATASIZE")>>), AsmOp(<<OpByte("MSTORE")>>),
                AsmOp(<<OpByte("MSIZE")>>), AsmOp(<<OpByte("RETURNDATASIZE")>>),
                AsmOp(<<OpByte("RETURN")>>)>>
         ELSE <<AsmOp(u256_as_push(from_be_slice(runtime))),
                AsmOp(<<OpByte("RETURNDATASIZE")>>), AsmOp(<<OpByte("MSTORE")>>),
                AsmOp(PUSH(1, <<Len(runtime)>>)), AsmOp(PUSH(1, <<32 - Len(runtime)>>)),
                AsmOp(<<OpByte("RETURN")>>)>>
    ELSE <<Delta(0, 1), AsmOp(<<OpByte("DUP1")>>), Direct(1),
           AsmOp(<<OpByte("RETURNDATASIZE")>>), AsmOp(<<OpByte("CODECOPY")>>),
           AsmOp(<<OpByte("RETURNDATASIZE")>>), AsmOp(<<OpByte("RETURN")>>),
           Mark(0), Data(runtime), Mark(1)>>

\* generate_default_constructor
generate_default_constructor(runtime) ==
    IF Len(runtime) = 0 THEN <<>>
    ELSE IF Len(runtime) <= 32
    THEN IF Len(runtime) = 32
         THEN <<AsmOp(u256_as_push(from_be_slice(runtime))),
                AsmOp(<<OpByte("RETURNDATASIZE")>>), AsmOp(<<OpByte("MSTORE")>>),
                AsmOp(<<OpByte("MSIZE")>>), AsmOp(<<OpByte("RETURNDATASIZE")>>),
                AsmOp(<<OpByte("RETURN")>>)>>
         ELSE <<AsmOp(u256_as_push(from_be_slice(runtime))),
                AsmOp(<<OpByte("RETURNDATASIZE")>>), AsmOp(<<OpByte("MSTORE")>>),
                AsmOp(PUSH(1, <<Len(runtime)>>)), AsmOp(PUSH(1, <<32 - Len(runtime)>>)),
                AsmOp(<<OpByte("RETURN")>>)>>
    ELSE <<Delta(0, 1), AsmOp(<<OpByte("DUP1")>>), Direct(0),
           AsmOp(<<OpByte("RETURNDATASIZE")>>), AsmOp(<<OpByte("CODECOPY")>>),
           AsmOp(<<OpByte("RETURNDATASIZE")>>), AsmOp(<<OpByte("RETURN")>>),
           Mark(0), Data(runtime), Mark(1)>>

----------------------------------------------------------------------------
(* main (crates/cli/src/main.rs) and analyze_entry_point *)

\* crates/cli/src/versions.rs
EvmVersion == {"paris", "shanghai", "cancun", "eof"}

allows_push0(version) == version \in {"shanghai", "cancun", "eof"}

\* a faulty lookup that takes any macro of the name, not the first definition
resolve_entry_point_any_macro(defs, name) ==
    IF name \in DOMAIN defs
       /\ \E k \in DOMAIN defs[name] : ast[defs[name][k]].kind = "Macro"
    THEN <<defs[name][CHOOSE k \in DOMAIN defs[name] :
                        ast[defs[name][k]].kind = "Macro"]>>
    ELSE <<>>

\* analyze_entry_point: the first definition of the name, if it is a macro
\* (the empty sequence models the else branch)
resolve_entry_point(defs, name) ==
    IF name \in DOMAIN defs /\ defs[name] # <<>> /\ ast[defs[name][1]].kind = "Macro"
    THEN <<defs[name][1]>> ELSE <<>>

\* main.rs 63-79: a constant overridden twice ends the run
has_duplicate_override(overrides) ==
    \E j, k \in DOMAIN overrides : j < k /\ overrides[j].name = overrides[k].name

CheckOverrides ==
    /\ pc = "start"
    /\ IF has_duplicate_override(constant_overrides)
       THEN pc' = "exited" /\ exit_code' = 1
       ELSE pc' = "build" /\ UNCHANGED exit_code
    /\ UNCHANGED <<asmVars, lsVars, ast, entry_point, constant_overrides, evm_version,
                   add_default_constructor, analysis_errors, global_defs,
                   unique_defs, to_analyze_stack, analyzed_macros,
                   idx_to_remove, frames, invoke_stack, label_stack, config,
                   entry_point_code, stdout>>

\* main.rs 106-116
BuildGlobalDefs ==
    /\ pc = "build"
    /\ analysis_errors' = IncludeErrors
    /\ global_defs' = build_ident_map(DefinitionNodes)
    /\ pc' = "dups"
    /\ UNCHANGED <<asmVars, lsVars, ast, entry_point, constant_overrides, evm_version,
                   add_default_constructor, unique_defs, to_analyze_stack,
                   analyzed_macros, idx_to_remove, frames, invoke_stack,
                   label_stack, config, entry_point_code, stdout, exit_code>>

\* main.rs 117
AnalyzeGlobalForDups ==
    /\ pc = "dups"
    /\ unique_defs' = analyze_global_for_dups(global_defs)
    /\ analysis_errors' = analysis_errors \o analyze_global_for_dups_errors(global_defs)
    /\ pc' = "verify"
    /\ UNCHANGED <<asmVars, lsVars, ast, entry_point, constant_overrides, evm_version,
                   add_default_constructor, global_defs, to_analyze_stack,
                   analyzed_macros, idx_to_remove, frames, invoke_stack,
                   label_stack, config, entry_point_code, stdout, exit_code>>

\* main.rs 118-124
VerifyOverrides ==
    /\ pc = "verify"
    /\ analysis_errors' = analysis_errors
          \o verify_constants_to_be_overriden_defined(global_defs, constant_overrides)
    /\ to_analyze_stack' = <<CodeInclusionFrame_top(entry_point)>>
    /\ analyzed_macros' = {}
    /\ pc' = "loop"
    /\ UNCHANGED <<asmVars, lsVars, ast, entry_point, constant_overrides, evm_version,
                   add_default_constructor, global_defs, unique_defs,
                   idx_to_remove, frames, invoke_stack, label_stack, config,
                   entry_point_code, stdout, exit_code>>

\* main.rs 125-133 with the head of analyze_entry_point (lib.rs 35-63): the
\* name on top of the worklist has not been analysed yet
LoopAnalyze ==
    /\ pc = "loop" /\ to_analyze_stack # <<>>
    /\ LET name  == Last(to_analyze_stack).name
           found == resolve_entry_point(global_defs, name)
       IN /\ name \notin analyzed_macros
          /\ analyzed_macros' = analyzed_macros \cup {name}
          /\ IF found = <<>>
             THEN /\ analysis_errors' = Append(analysis_errors, EntryPointNotFound(name))
                  /\ frames' = <<>>
             ELSE /\ analysis_errors' = analysis_errors \o
                        (IF Len(ast[found[1]].args) # 0
                         THEN <<EntryPointHasArgs(found[1])>> ELSE <<>>)
                  /\ frames' = <<Frame(found[1], "enter", 1, <<>>)>>
    /\ idx_to_remove' = Len(to_analyze_stack)
    /\ invoke_stack' = <<>>
    /\ label_stack' = LabelStack_new
    /\ pc' = "analyze"
    /\ UNCHANGED <<asmVars, lsVars, ast, entry_point, constant_overrides, evm_version,
                   add_default_constructor, global_defs, unique_defs,
                   to_analyze_stack, config, entry_point_code, stdout,
                   exit_code>>

\* main.rs 125-127, 135: the name on top was analysed before
LoopSkip ==
    /\ pc = "loop" /\ to_analyze_stack # <<>>
    /\ Last(to_analyze_stack).name \in analyzed_macros
    /\ idx_to_remove' = Len(to_analyze_stack)
    /\ to_analyze_stack' = RemoveAt(to_analyze_stack, Len(to_analyze_stack))
    /\ UNCHANGED <<asmVars, lsVars, ast, entry_point, constant_overrides, evm_version,
                   add_default_constructor, pc, analysis_errors, global_defs,
                   unique_defs, analyzed_macros, frames, invoke_stack,
                   label_stack, config, entry_point_code, stdout, exit_code>>

\* main.rs 135 after analyze_entry_point returned
LoopRemove ==
    /\ pc = "analyze" /\ frames = <<>>
    /\ to_analyze_stack' = RemoveAt(to_analyze_stack, idx_to_remove)
    /\ pc' = "loop"
    /\ UNCHANGED <<asmVars, lsVars, ast, entry_point, constant_overrides, evm_version,
                   add_default_constructor, analysis_errors, global_defs,
                   unique_defs, analyzed_macros, idx_to_remove, frames,
                   invoke_stack, label_stack, config, entry_point_code,
                   stdout, exit_code>>

\* main.rs 125: the worklist is empty
LoopExit ==
    /\ pc = "loop" /\ to_analyze_stack = <<>>
    /\ pc' = "check"
    /\ UNCHANGED <<asmVars, lsVars, ast, entry_point, constant_overrides, evm_version,
                   add_default_constructor, analysis_errors, global_defs,
                   unique_defs, to_analyze_stack, analyzed_macros,
                   idx_to_remove, frames, invoke_stack, label_stack, config,
                   entry_point_code, stdout, exit_code>>

\* a faulty test of the buffer that lets a single diagnostic through
should_report_many(errors) == Len(errors) > 1

\* main.rs 139
should_report(errors) == errors # <<>>

\* main.rs 139-146
ReportErrors ==
    /\ pc = "check" /\ should_report(analysis_errors)
    /\ pc' = "exited" /\ exit_code' = 1
    /\ UNCHANGED <<asmVars, lsVars, ast, entry_point, constant_overrides, evm_version,
                   add_default_constructor, analysis_errors, global_defs,
                   unique_defs, to_analyze_stack, analyzed_macros,
                   idx_to_remove, frames, invoke_stack, label_stack, config,
                   entry_point_code, stdout>>

\* hex::encode: two digits (0..15) per byte
hex_encode(bytes) ==
    Concat([k \in DOMAIN bytes |-> <<bytes[k] \div 16, bytes[k] % 16>>])

\* main.rs 155-159: the entry point lookup (a panic when it is no macro) and
\* generate_for_entrypoint
compile_entry_point(globals, name) ==
    IF name \in DOMAIN globals.defs /\ ast[globals.defs[name]].kind = "Macro"
    THEN generate_for_entrypoint(globals, globals.defs[name], 0)
    ELSE Failed("panic")

\* main.rs 148-159: CompileGlobals::new, the entry point lookup and
\* generate_for_entrypoint
Generate ==
    /\ pc = "check" /\ ~should_report(analysis_errors)
    /\ LET globals == CompileGlobals_new(TRUE, allows_push0(evm_version), unique_defs, constant_overrides)
           code == compile_entry_point(globals, entry_point)
       IN /\ config' = globals
          /\ entry_point_code' = code
          /\ IF code.status = "ok"
             THEN /\ pc' = IF add_default_constructor THEN "wrap" ELSE "print"
                  /\ UNCHANGED exit_code
             ELSE /\ pc' = "exited"
                  /\ exit_code' = IF code.status = "panic" THEN 101 ELSE 134
    /\ UNCHANGED <<asmVars, lsVars, ast, entry_point, constant_overrides, evm_version,
                   add_default_constructor, analysis_errors, global_defs,
                   unique_defs, to_analyze_stack, analyzed_macros,
                   idx_to_remove, frames, invoke_stack, label_stack, stdout>>

\* main.rs 160-162
WrapConstructor ==
    /\ pc = "wrap"
    /\ entry_point_code' =
          assemble(config, generate_default_constructor(entry_point_code.bytes))
    /\ pc' = "print"
    /\ UNCHANGED <<asmVars, lsVars, ast, entry_point, constant_overrides, evm_version,
                   add_default_constructor, analysis_errors, global_defs,
                   unique_defs, to_analyze_stack, analyzed_macros,
                   idx_to_remove, frames, invoke_stack, label_stack, config,
                   stdout, exit_code>>

\* main.rs 164-166
PrintCode ==
    /\ pc = "print"
    /\ stdout' = Append(stdout, [prefix |-> "0x", hex |-> hex_encode(entry_point_code.bytes)])
    /\ exit_code' = 0
    /\ pc' = "exited"
    /\ UNCHANGED <<asmVars, lsVars, ast, entry_point, constant_overrides, evm_version,
                   add_default_constructor, analysis_errors, global_defs,
                   unique_defs, to_analyze_stack, analyzed_macros,
                   idx_to_remove, frames, invoke_stack, label_stack, config,
                   entry_point_code>>

----------------------------------------------------------------------------
(* The inputs the model is run on *)

Body(args, body) == [args |-> args, body |-> body]

MainBodies == {
    Body(<<>>, <<LabelDefinition("lbl"), InvokeMacro("A", <<>>)>>),
    Body(<<>>, <<InvokeMacro("A", <<>>), InvokeMacro("B", <<>>)>>),
    Body(<<>>, <<InvokeMacro("A", <<>>), LabelReference("lbl")>>),
    Body(<<>>, <<ConstantReference("NOPE"), MacroArgReference("x"),
                 InvokeMacro("NOPE", <<LabelReference("lbl")>>),
                 InvokeMacro("B", <<VariablePush(<<1>>)>>)>>),
    Body(<<>>, <<BuiltinCodeSize("A"), BuiltinCodeOffset("B")>>),
    Body(<<>>, <<InvokeMacro("A", <<>>), InvokeMacro("A", <<>>)>>),
    Body(<<>>, <<ConstantReference("K"), VariablePush(<<>>), Op("STOP")>>),
    Body(<<>>, <<BuiltinTableSize("T"), BuiltinTableStart("K")>>),
    Body(<<>>, <<InvokeMacro("B", <<LabelReference("lbl")>>), LabelDefinition("lbl")>>) }

ABodies == {
    Body(<<>>, <<Op("ADD")>>),
    Body(<<>>, <<InvokeMacro("A", <<>>)>>),
    Body(<<>>, <<InvokeMacro("B", <<>>)>>),
    Body(<<>>, <<LabelReference("lbl")>>),
    Body(<<>>, <<LabelDefinition("lbl"), InvokeMacro("B", <<>>)>>),
    Body(<<>>, <<BuiltinCodeSize("B")>>),
    Body(<<>>, <<InvokeMacro("MAIN", <<>>)>>),
    Body(<<>>, <<BuiltinCodeOffset("A")>>),
    Body(<<"x">>, <<MacroArgReference("x")>>) }

BBodies == {
    Body(<<>>, <<Op("STOP")>>),
    Body(<<>>, <<InvokeMacro("A", <<>>)>>),
    Body(<<>>, <<LabelReference("lbl")>>),
    Body(<<"x">>, <<MacroArgReference("x"), MacroArgReference("y")>>),
    Body(<<>>, <<BuiltinCodeSize("A")>>),
    Body(<<>>, <<BuiltinCodeSize("MAIN")>>),
    Body(<<>>, <<LabelDefinition("lbl"), LabelReference("lbl"), LabelDefinition("lbl")>>),
    Body(<<"x", "x">>, <<>>) }

\* the file: MAIN, A, B and a constant K
File(main, a, b) ==
    <<Macro("MAIN", main.args, main.body), Macro("A", a.args, a.body),
      Macro("B", b.args, b.body), Constant("K", Value(<<1>>))>>

\* further sections put before and after them
Prefixes == { <<>>, <<Constant("B", FreeStoragePointer)>> }
Suffixes == { <<>>, <<Include>>, <<Macro("A", <<>>, <<LabelDefinition("lbl")>>)>>,
              <<CodeTable("T", <<192, 254>>), Constant("F", FreeStoragePointer),
                Constant("G", FreeStoragePointer)>>,
              <<Constant("T", FreeStoragePointer), Constant("G", Value(<<2>>)),
                Constant("F", FreeStoragePointer)>> }

Override(name, value) == [name |-> name, value |-> value]

OverrideLists == { <<>>, <<Override("K", <<42>>)>>, <<Override("NOPE", <<1>>)>>,
                   <<Override("K", <<1>>), Override("K", <<2>>)>>,
                   <<Override("K", <<1>>)>>, <<Override("F", <<>>)>> }

SmallMainBodies == { Body(<<>>, <<InvokeMacro("A", <<>>), InvokeMacro("B", <<>>)>>),
                     Body(<<>>, <<ConstantReference("K"), VariablePush(<<>>), Op("STOP")>>),
                     Body(<<>>, <<ConstantReference("F"), ConstantReference("G"),
                                  ConstantReference("K")>>) }
SmallABodies == { Body(<<>>, <<Op("ADD")>>), Body(<<"x">>, <<MacroArgReference("x")>>) }
SmallBBodies == { Body(<<>>, <<Op("STOP")>>),
                  Body(<<"x">>, <<MacroArgReference("x"), MacroArgReference("y")>>) }

\* main before its first statement, on the chosen command line
Start ==
    /\ pc = "start"
    /\ analysis_errors = <<>>
    /\ global_defs = <<>>
    /\ unique_defs = <<>>
    /\ to_analyze_stack = <<>>
    /\ analyzed_macros = {}
    /\ idx_to_remove = 0
    /\ frames = <<>>
    /\ invoke_stack = <<>>
    /\ label_stack = LabelStack_new
    /\ entry_point_code = Failed("none")
    /\ stdout = <<>>
    /\ exit_code = -1

\* the U256 values of every byte length: 01 02 .. and ff ff ..
ValuePool ==
    {[k \in 1..n |-> k] : n \in 0..WordSize} \cup {[k \in 1..n |-> 255] : n \in 1..WordSize}

\* a file that pushes a value as a literal, as a constant and pushes a free
\* storage pointer
PushFile(v) ==
    <<Macro("MAIN", <<>>, <<VariablePush(v), ConstantReference("K"),
                            ConstantReference("F")>>),
      Constant("K", Value(v)), Constant("F", FreeStoragePointer)>>

\* invocations with arguments: MAIN = { [lbl:] A(arg) },
\* A(x) = { [lbl:] <x> B(inner) } and B(y) = { lbl: <y> }
ArgPool == {LabelReference("lbl"), MacroArgReference("x"), VariablePush(<<1>>)}
InnerPool == {LabelReference("lbl"), MacroArgReference("x"), MacroArgReference("y")}

CallFile(main_lbl, callee_lbl, arg, inner) ==
    <<Macro("MAIN", <<>>,
            (IF main_lbl THEN <<LabelDefinition("lbl")>> ELSE <<>>)
                \o <<InvokeMacro("A", <<arg>>)>>),
      Macro("A", <<"x">>,
            (IF callee_lbl THEN <<LabelDefinition("lbl")>> ELSE <<>>)
                \o <<MacroArgReference("x"), InvokeMacro("B", <<inner>>)>>),
      Macro("B", <<"y">>, <<LabelDefinition("lbl"), MacroArgReference("y")>>)>>

\* table builtins: MAIN = { lbl: A() }, A = { [lbl:] ref } and a definition T
TablePool == {Jumptable("T", 2, <<"lbl">>), CodeTable("T", <<192, 254>>),
              Constant("T", Value(<<1>>))}
TableRefPool == {BuiltinTableStart("T"), BuiltinTableSize("T"), BuiltinTableStart("NOPE")}

TableFile(table, inner_lbl, ref) ==
    <<Macro("MAIN", <<>>, <<LabelDefinition("lbl"), InvokeMacro("A", <<>>)>>),
      Macro("A", <<>>,
            (IF inner_lbl THEN <<LabelDefinition("lbl")>> ELSE <<>>) \o <<ref>>),
      table>>

\* code introspection: macros that include each other as data
IncMainBodies == {
    Body(<<>>, <<LabelDefinition("lbl"), BuiltinCodeSize("A"), InvokeMacro("B", <<>>),
                 BuiltinCodeOffset("A")>>),
    Body(<<>>, <<BuiltinCodeOffset("MAIN"), BuiltinCodeSize("B"),
                 BuiltinCodeSize("MAIN")>>),
    Body(<<>>, <<BuiltinCodeSize("K"), BuiltinCodeOffset("NOPE")>>),
    Body(<<>>, <<BuiltinCodeSize("B"), BuiltinCodeSize("A"), LabelDefinition("lbl"),
                 LabelReference("lbl")>>) }

IncABodies == {
    Body(<<>>, <<Op("ADD")>>),
    Body(<<>>, <<LabelReference("lbl")>>),
    Body(<<>>, <<BuiltinCodeSize("B"), Op("STOP")>>),
    Body(<<"x">>, <<Op("ADD")>>) }

IncBBodies == {
    Body(<<>>, <<Op("STOP")>>),
    Body(<<>>, <<BuiltinCodeSize("A")>>),
    Body(<<>>, <<LabelDefinition("lbl"), BuiltinCodeOffset("A"),
                 LabelReference("lbl")>>) }

\* the command lines: programs of three macros compiled from MAIN, ...
Programs ==
    /\ \E main \in MainBodies, a \in ABodies, b \in BBodies : ast = File(main, a, b)
    /\ entry_point = "MAIN"
    /\ constant_overrides = <<>>
    /\ evm_version = "paris"
    /\ add_default_constructor = FALSE

\* ... pushes of every width under every EVM version, ...
Pushes ==
    /\ \E v \in ValuePool : ast = PushFile(v)
    /\ entry_point = "MAIN"
    /\ constant_overrides = <<>>
    /\ evm_version \in EvmVersion
    /\ add_default_constructor = FALSE

\* ... invocations that pass labels, parameters and literals on, ...
Calls ==
    /\ \E main_lbl \in BOOLEAN, callee_lbl \in BOOLEAN, arg \in ArgPool,
          inner \in InnerPool : ast = CallFile(main_lbl, callee_lbl, arg, inner)
    /\ entry_point = "MAIN"
    /\ constant_overrides = <<>>
    /\ evm_version \in {"paris", "shanghai"}
    /\ add_default_constructor = FALSE

\* ... macros included through __codesize and __codeoffset, ...
Inclusions ==
    /\ \E main \in IncMainBodies, a \in IncABodies, b \in IncBBodies :
          ast = File(main, a, b)
    /\ entry_point = "MAIN"
    /\ constant_overrides = <<>>
    /\ evm_version = "paris"
    /\ add_default_constructor = FALSE

\* ... references to jump tables, code tables and other names, ...
Tables ==
    /\ \E table \in TablePool, inner_lbl \in BOOLEAN, ref \in TableRefPool :
          ast = TableFile(table, inner_lbl, ref)
    /\ entry_point = "MAIN"
    /\ constant_overrides = <<>>
    /\ evm_version = "paris"
    /\ add_default_constructor = FALSE

\* ... and files with other definitions, entry points, overrides and flags
Variants ==
    /\ \E main \in SmallMainBodies, a \in SmallABodies, b \in SmallBBodies,
          pre \in Prefixes, suf \in Suffixes :
          ast = pre \o File(main, a, b) \o suf
    /\ entry_point \in {"MAIN", "B", "K", "NOPE"}
    /\ constant_overrides \in OverrideLists
    /\ evm_version \in {"paris", "cancun"}
    /\ add_default_constructor \in BOOLEAN

\* the compiler before the file is analysed
Fresh ==
    /\ Start
    /\ config = CompileGlobals_new(TRUE, FALSE, <<>>, <<>>)
    /\ asm_stream = <<>>
    /\ ref_widths = <<>>
    /\ assembled = <<>>
    /\ asm_pc = "idle"
    /\ asm_rounds = 0
    /\ ls_saved = <<>>
    /\ ls_last = Call("new", None)

Init == (Programs \/ Pushes \/ Calls \/ Inclusions \/ Tables \/ Variants) /\ Fresh

Next ==
    \/ CheckOverrides
    \/ BuildGlobalDefs
    \/ AnalyzeGlobalForDups
    \/ VerifyOverrides
    \/ LoopAnalyze
    \/ LoopSkip
    \/ AnalyzeEnter
    \/ AnalyzeStatement
    \/ AnalyzeInvoke
    \/ AnalyzeRun
    \/ AnalyzeInvokeDone
    \/ AnalyzeLeave
    \/ LoopRemove
    \/ LoopExit
    \/ ReportErrors
    \/ Generate
    \/ WrapConstructor
    \/ PrintCode

Spec == Init /\ [][Next]_vars

\* main up to the end of the analysis (main.rs 63-137); the process always
\* takes its next step
NextAnalysis ==
    \/ CheckOverrides
    \/ BuildGlobalDefs
    \/ AnalyzeGlobalForDups
    \/ VerifyOverrides
    \/ LoopAnalyze
    \/ LoopSkip
    \/ AnalyzeEnter
    \/ AnalyzeStatement
    \/ AnalyzeInvoke
    \/ AnalyzeRun
    \/ AnalyzeInvokeDone
    \/ AnalyzeLeave
    \/ LoopRemove
    \/ LoopExit

InitAnalysis == Programs /\ Fresh

SpecAnalysis == InitAnalysis /\ [][NextAnalysis]_vars /\ WF_vars(NextAnalysis)

----------------------------------------------------------------------------
(* generate_for_entrypoint on files with code tables and included macros,
   called as main calls it once the analysis has left no diagnostic *)

ExpMainBodies == {
    Body(<<>>, <<BuiltinTableSize("T"), BuiltinCodeSize("A"), BuiltinTableStart("G"),
                 Op("STOP")>>),
    Body(<<>>, <<BuiltinCodeOffset("B"), InvokeMacro("A", <<>>),
                 BuiltinTableStart("T")>>),
    Body(<<>>, <<BuiltinTableStart("G"), LabelDefinition("lbl"),
                 InvokeMacro("B", <<>>), BuiltinCodeSize("MAIN")>>),
    Body(<<>>, <<Op("ADD"), BuiltinCodeSize("B"), BuiltinCodeSize("A")>>) }

ExpABodies == {
    Body(<<>>, <<Op("ADD")>>),
    Body(<<>>, <<BuiltinTableSize("G")>>),
    Body(<<>>, <<BuiltinCodeSize("B"), LabelDefinition("lbl")>>) }

ExpBBodies == {
    Body(<<>>, <<Op("STOP")>>),
    Body(<<>>, <<BuiltinTableStart("T"), BuiltinCodeOffset("MAIN")>>),
    Body(<<>>, <<LabelReference("lbl")>>) }

\* the file: MAIN, A, B and the code tables T and G
ExpFile(main, a, b) ==
    <<Macro("MAIN", main.args, main.body), Macro("A", a.args, a.body),
      Macro("B", b.args, b.body), CodeTable("T", <<192, 254>>), CodeTable("G", <<1>>)>>

InitExpand ==
    /\ \E main \in ExpMainBodies, a \in ExpABodies, b \in ExpBBodies :
          ast = ExpFile(main, a, b)
    /\ entry_point = "MAIN"
    /\ constant_overrides = <<>>
    /\ evm_version \in {"paris", "shanghai"}
    /\ add_default_constructor = FALSE
    /\ analysis_errors = <<>>
    /\ global_defs = build_ident_map(DefinitionNodes)
    /\ unique_defs = analyze_global_for_dups(global_defs)
    /\ to_analyze_stack = <<>>
    /\ analyzed_macros = {"MAIN"}
    /\ idx_to_remove = 0
    /\ frames = <<>>
    /\ invoke_stack = <<>>
    /\ label_stack = LabelStack_new
    /\ stdout = <<>>
    /\ exit_code = -1
    /\ pc = "check"
    /\ config = CompileGlobals_new(TRUE, FALSE, <<>>, <<>>)
    /\ entry_point_code = Failed("none")
    /\ asm_stream = <<>>
    /\ ref_widths = <<>>
    /\ assembled = <<>>
    /\ asm_pc = "idle"
    /\ asm_rounds = 0
    /\ ls_saved = <<>>
    /\ ls_last = Call("new", None)

NextExpand ==
    \/ Generate
    \/ PrintCode

SpecExpand == InitExpand /\ [][NextExpand]_vars

----------------------------------------------------------------------------
(* The definition table on every short file *)

\* the longest file of the definition-table runs
MaxDefs == 3

DefPool == { Macro("A", <<>>, <<>>), Macro("B", <<"x">>, <<>>),
             Constant("A", Value(<<1>>)), Constant("B", FreeStoragePointer),
             CodeTable("A", <<1>>), Include }

InitDups ==
    /\ ast \in UNION {[1..n -> DefPool] : n \in 0..MaxDefs}
    /\ entry_point = "A"
    /\ constant_overrides = <<>>
    /\ evm_version = "paris"
    /\ add_default_constructor = FALSE
    /\ Start
    /\ config = CompileGlobals_new(TRUE, FALSE, <<>>, <<>>)
    /\ asm_stream = <<>>
    /\ ref_widths = <<>>
    /\ assembled = <<>>
    /\ asm_pc = "idle"
    /\ asm_rounds = 0
    /\ ls_saved = <<>>
    /\ ls_last = Call("new", None)

NextDups ==
    \/ CheckOverrides
    \/ BuildGlobalDefs
    \/ AnalyzeGlobalForDups

SpecDups == InitDups /\ [][NextDups]_vars

----------------------------------------------------------------------------
(* The assembler on streams whose offsets cross one byte *)

\* the longest stretch of code before the label of the streams
MaxPad == 254

Pad(n) == [k \in 1..n |-> OpByte("JUMPDEST")]

\* the stream generate_for_entrypoint hands over for an entry point that
\* takes the size and the start of an included macro, runs `pad` bytes of
\* code, defines a label and pushes it; `code` is the included section
SectionStream(pad, code) ==
    LET included == IncludedMacro("A", 2, 3)
    IN <<Mark(0), size_ref(included), start_ref(included), AsmOp(Pad(pad)),
         Mark(4), AsmOp(<<OpByte("JUMPDEST")>>), Direct(4),
         Mark(included.start_id), Data(code), Mark(included.end_id), Mark(1)>>

\* the stream of an entry point of `pad` bytes of code without references
PlainStream(pad) == <<Mark(0), AsmOp(Pad(pad)), Mark(1)>>

\* the stream of an entry point that pushes a label defined after 65533
\* bytes of code, at the offset 65535 when the push takes one byte
FarLabelStream ==
    <<Mark(0), Direct(2), AsmOp(Pad(256 * 256 - 3)), Mark(2), Mark(1)>>

PadLens == (MaxPad - 9)..MaxPad

CodeLens == {0, 1, MaxPad, MaxPad + 2}

InitAsm ==
    /\ ast = <<>>
    /\ entry_point = "MAIN"
    /\ constant_overrides = <<>>
    /\ evm_version = "paris"
    /\ add_default_constructor = FALSE
    /\ Start
    /\ \E minimize \in BOOLEAN : config = CompileGlobals_new(minimize, FALSE, <<>>, <<>>)
    /\ \E pad \in PadLens, n \in CodeLens :
          asm_stream \in {SectionStream(pad, Pad(n)), PlainStream(pad), FarLabelStream}
    /\ ref_widths = <<>>
    /\ assembled = <<>>
    /\ asm_pc = "start"
    /\ asm_rounds = 0
    /\ ls_saved = <<>>
    /\ ls_last = Call("new", None)

NextAsm ==
    \/ AsmStart
    \/ AsmRound
    \/ AsmEncode

SpecAsm == InitAsm /\ [][NextAsm]_vars

----------------------------------------------------------------------------
(* The default constructor on runtimes of every short length *)

\* the longest runtime handed to generate_default_constructor
MaxRuntime == 258

Zeros(n) == [k \in 1..n |-> 0]

Fill(n) == [k \in 1..n |-> (96 + k) % 256]

\* runtimes of 0..MaxRuntime bytes, with up to two leading zero bytes
RuntimePool ==
    { Zeros(p[2]) \o Fill(p[1] - p[2]) :
        p \in {q \in (0..MaxRuntime) \X (0..2) : q[2] <= q[1]} }

\* main after generate_for_entrypoint returned a runtime, with
\* --add-default-constructor
InitCtor ==
    /\ ast = <<>>
    /\ entry_point = "MAIN"
    /\ constant_overrides = <<>>
    /\ evm_version \in EvmVersion
    /\ add_default_constructor = TRUE
    /\ analysis_errors = <<>>
    /\ global_defs = <<>>
    /\ unique_defs = <<>>
    /\ to_analyze_stack = <<>>
    /\ analyzed_macros = {}
    /\ idx_to_remove = 0
    /\ frames = <<>>
    /\ invoke_stack = <<>>
    /\ label_stack = LabelStack_new
    /\ stdout = <<>>
    /\ exit_code = -1
    /\ pc = "wrap"
    /\ config = CompileGlobals_new(TRUE, allows_push0(evm_version), <<>>, <<>>)
    /\ \E runtime \in RuntimePool : entry_point_code = Ok(runtime)
    /\ asm_stream = <<>>
    /\ ref_widths = <<>>
    /\ assembled = <<>>
    /\ asm_pc = "idle"
    /\ asm_rounds = 0
    /\ ls_saved = <<>>
    /\ ls_last = Call("new", None)

NextCtor ==
    \/ WrapConstructor
    \/ PrintCode

SpecCtor == InitCtor /\ [][NextCtor]_vars

----------------------------------------------------------------------------
(* A LabelStack under every short sequence of calls *)

\* the most bindings and the most open contexts of the runs
MaxBindings == 3
MaxContexts == 2

LabelPool == {"lbl", "x"}
ValuePoolOfLabels == {0, 1}

notLabelVars == <<ast, entry_point, constant_overrides, evm_version,
                  add_default_constructor, pc, analysis_errors, global_defs,
                  unique_defs, to_analyze_stack, analyzed_macros, idx_to_remove,
                  frames, invoke_stack, config, entry_point_code, stdout,
                  exit_code, asmVars>>

LsEnterContext ==
    /\ pc = "labels"
    /\ Len(label_stack.context_sizes) < MaxContexts
    /\ label_stack' = enter_context(label_stack)
    /\ ls_saved' = Append(ls_saved, label_stack.label_stack)
    /\ ls_last' = Call("enter_context", None)
    /\ UNCHANGED notLabelVars

LsInsert ==
    /\ pc = "labels"
    /\ Len(label_stack.label_stack) < MaxBindings
    /\ \E label \in LabelPool, value \in ValuePoolOfLabels :
          /\ label_stack' = insert(label_stack, label, value)
          /\ ls_last' = Call("insert", Some(<<label, value>>))
    /\ UNCHANGED <<notLabelVars, ls_saved>>

LsLeaveContext ==
    /\ pc = "labels"
    /\ label_stack' = leave_context(label_stack)
    /\ ls_last' = Call("leave_context", leave_context_value(label_stack))
    /\ ls_saved' = IF ls_saved = <<>> THEN ls_saved ELSE Front(ls_saved)
    /\ UNCHANGED notLabelVars

LsGet ==
    /\ pc = "labels"
    /\ \E label \in LabelPool : ls_last' = Call("get", <<label, get(label_stack, label)>>)
    /\ UNCHANGED <<notLabelVars, label_stack, ls_saved>>

InitLabels ==
    /\ ast = <<>>
    /\ entry_point = "MAIN"
    /\ constant_overrides = <<>>
    /\ evm_version = "paris"
    /\ add_default_constructor = FALSE
    /\ analysis_errors = <<>>
    /\ global_defs = <<>>
    /\ unique_defs = <<>>
    /\ to_analyze_stack = <<>>
    /\ analyzed_macros = {}
    /\ idx_to_remove = 0
    /\ frames = <<>>
    /\ invoke_stack = <<>>
    /\ label_stack = LabelStack_new
    /\ entry_point_code = Failed("none")
    /\ stdout = <<>>
    /\ exit_code = -1
    /\ pc = "labels"
    /\ config = CompileGlobals_new(TRUE, FALSE, <<>>, <<>>)
    /\ asm_stream = <<>>
    /\ ref_widths = <<>>
    /\ assembled = <<>>
    /\ asm_pc = "idle"
    /\ asm_rounds = 0
    /\ ls_saved = <<>>
    /\ ls_last = Call("new", None)

NextLabels ==
    \/ LsEnterContext
    \/ LsInsert
    \/ LsLeaveContext
    \/ LsGet

SpecLabels == InitLabels /\ [][NextLabels]_vars

----------------------------------------------------------------------------
(* Properties *)

\* What the properties read off the file itself, without the analyser.

\* the definitions of a name, in source order
DefinitionsNamed(name) ==
    SelectSeq([i \in 1..Len(ast) |-> i],
              LAMBDA i : ast[i].kind # "Include" /\ ast[i].name = name)

DefinedNames == {ast[i].name : i \in {j \in DOMAIN ast : ast[j].kind # "Include"}}

HasDefinition(name, kind) ==
    \E d \in DOMAIN ast : ast[d].kind = kind /\ ast[d].name = name

\* the labels a macro defines
LabelsOf(m) ==
    {ast[m].body[i].name :
        i \in {j \in DOMAIN ast[m].body : ast[m].body[j].t = "LabelDefinition"}}

\* the macros a macro invokes by name
InvokedBy(m) ==
    {d \in DOMAIN ast :
        /\ ast[d].kind = "Macro"
        /\ \E i \in DOMAIN ast[m].body :
              ast[m].body[i].t = "InvokeMacro" /\ ast[m].body[i].name = ast[d].name}

\* the macros whose bodies are walked when m is analysed below callers of
\* the names `callers`: an invoked macro is entered unless its name is the
\* name of one of its callers
RECURSIVE WalkedFrom(_, _)
WalkedFrom(m, callers) ==
    {m} \cup UNION {WalkedFrom(d, callers \cup {ast[m].name}) :
                        d \in {e \in InvokedBy(m) :
                                  ast[e].name \notin callers \cup {ast[m].name}}}

\* the macro an entry point name resolves to
EntryMacro(name) ==
    IF DefinitionsNamed(name) # <<>> /\ ast[DefinitionsNamed(name)[1]].kind = "Macro"
    THEN {DefinitionsNamed(name)[1]} ELSE {}

WalkedFor(name) == UNION {WalkedFrom(r, {}) : r \in EntryMacro(name)}

\* the names a macro asks to include
CodeRefs(m) ==
    {ast[m].body[i].name :
        i \in {j \in DOMAIN ast[m].body :
                  ast[m].body[j].t \in {"BuiltinCodeSize", "BuiltinCodeOffset"}}}

\* the names the analysis of an entry point asks to include
IncludesOf(name) == UNION {CodeRefs(m) : m \in WalkedFor(name)}

\* the names analysed as entry points: the given one and every inclusion
RECURSIVE EntryNames(_)
EntryNames(S) ==
    IF UNION {IncludesOf(n) : n \in S} \subseteq S THEN S
    ELSE EntryNames(S \cup UNION {IncludesOf(n) : n \in S})

\* every macro whose body the analyser walks
Visited == UNION {WalkedFor(n) : n \in EntryNames({entry_point})}

\* the diagnostics of a kind
Diagnostics(kind) ==
    {k \in DOMAIN analysis_errors : analysis_errors[k].kind = kind}

Reported(kind, at) ==
    \E k \in Diagnostics(kind) : analysis_errors[k].at = at

----------------------------------------------------------------------------
\* C1: every cycle of macro invocations reachable from the entry point gives
\* exactly one RecursiveMacroInvocation, and its invocation chain closes the
\* cycle: each pair's invoked name is the next pair's caller and the last
\* pair's invoked name is the first pair's caller.

\* the macros of the cycle a chain ends with
CycleOf(chain) ==
    {ast[chain[j].m].name :
        j \in {i \in DOMAIN chain :
                  \E f \in DOMAIN chain :
                      f <= i /\ ast[chain[f].m].name = Last(chain).name}}

ChainClosesCycle(chain) ==
    /\ chain # <<>>
    /\ \A j \in 1..(Len(chain) - 1) : chain[j].name = ast[chain[j + 1].m].name
    /\ Last(chain).name = ast[chain[1].m].name

C1_OneClosedChainPerCycle ==
    /\ \A k \in Diagnostics("RecursiveMacroInvocation") :
          ChainClosesCycle(analysis_errors[k].invocation_chain)
    /\ \A j, k \in Diagnostics("RecursiveMacroInvocation") :
          j # k => CycleOf(analysis_errors[j].invocation_chain)
                      # CycleOf(analysis_errors[k].invocation_chain)

\* a cycle below the entry point was diagnosed
C1_CycleBelowEntry ==
    \E k \in Diagnostics("RecursiveMacroInvocation") :
        LET chain == analysis_errors[k].invocation_chain
        IN Len(chain) >= 2 /\ Last(chain).name # ast[chain[1].m].name

----------------------------------------------------------------------------
\* C2: a label reference in the body of macro N resolves exactly when the
\* label is defined in N or in a macro on the invocation stack above N;
\* otherwise the reference gives LabelNotFound.  A label of a callee that was
\* left is visible neither to a sibling nor to the caller.

\* the macros on the current invocation path
InvocationPath == {Top.m} \cup {invoke_stack[k].m : k \in DOMAIN invoke_stack}

AtLabelReference ==
    /\ pc = "analyze" /\ frames # <<>> /\ Top.stage = "body"
    /\ Top.i <= Len(ast[Top.m].body)
    /\ ast[Top.m].body[Top.i].t = "LabelReference"

C2_LabelScoping ==
    [][AtLabelReference =>
        analysis_errors' = analysis_errors \o
            (IF \E m \in InvocationPath :
                    ast[Top.m].body[Top.i].name \in LabelsOf(m)
             THEN <<>>
             ELSE <<LabelNotFound(Top.m, invoke_stack, ast[Top.m].body[Top.i].name,
                                  <<Top.m, Top.i, 0>>)>>)]_vars

\* a caller's reference to a label of a callee it invoked before was refused
C2_CalleeLabelGone ==
    \E k \in Diagnostics("LabelNotFound") :
        LET e == analysis_errors[k]
        IN /\ e.at[3] = 0
           /\ \E i \in 1..(e.at[2] - 1) :
                 /\ ast[e.scope].body[i].t = "InvokeMacro"
                 /\ \E d \in InvokedBy(e.scope) :
                       /\ ast[d].name = ast[e.scope].body[i].name
                       /\ e.name \in LabelsOf(d)

----------------------------------------------------------------------------
\* C3: analyze_global_for_dups maps every name with exactly one definition
\* to that definition; for every name with two or more definitions, of any
\* variants, it emits exactly one DefinitionNameCollision with all of them in
\* source order and leaves the name out of the mapping; no other name is
\* touched.

CollisionsOf(name) ==
    {k \in Diagnostics("DefinitionNameCollision") : analysis_errors[k].name = name}

C3_GlobalDups ==
    pc = "verify" =>
        /\ DOMAIN unique_defs = {n \in DefinedNames : Len(DefinitionsNamed(n)) = 1}
        /\ \A n \in DOMAIN unique_defs : unique_defs[n] = DefinitionsNamed(n)[1]
        /\ \A n \in DefinedNames :
              Len(DefinitionsNamed(n)) >= 2 =>
                  /\ Cardinality(CollisionsOf(n)) = 1
                  /\ \A k \in CollisionsOf(n) :
                        analysis_errors[k].items = DefinitionsNamed(n)
        /\ \A k \in Diagnostics("DefinitionNameCollision") :
              Len(DefinitionsNamed(analysis_errors[k].name)) >= 2

\* a name defined by different variants collided beside a name defined once
C3_CollisionBesideUnique ==
    /\ pc = "verify"
    /\ \E n \in DefinedNames :
          /\ Len(DefinitionsNamed(n)) >= 2
          /\ ast[DefinitionsNamed(n)[1]].kind # ast[DefinitionsNamed(n)[2]].kind
          /\ CollisionsOf(n) # {}
    /\ unique_defs # <<>>

----------------------------------------------------------------------------
\* C4: the analyser does not stop at the first error: once the entry point
\* resolves to a macro, every statement of every macro it visits is checked,
\* whatever was reported before, so every fault of the visited macros has its
\* diagnostic when the analysis ends.

\* the diagnostic an instruction of macro m must get on its own account
\* ("" when it has no fault that the file alone decides)
FaultOf(m, instruction) ==
    IF instruction.t = "ConstantReference"
       /\ ~HasDefinition(instruction.name, "Constant")
    THEN "DefinitionNotFound"
    ELSE IF instruction.t = "MacroArgReference"
            /\ instruction.name \notin Range(ast[m].args)
    THEN "MacroArgNotFound"
    ELSE IF instruction.t = "LabelReference"
            /\ \A d \in DOMAIN ast : ast[d].kind = "Macro" =>
                                        instruction.name \notin LabelsOf(d)
    THEN "LabelNotFound"
    ELSE ""

StatementReported(m, i) ==
    LET stmt == ast[m].body[i]
    IN /\ FaultOf(m, stmt) # "" => Reported(FaultOf(m, stmt), <<m, i, 0>>)
       /\ stmt.t = "InvokeMacro" =>
            /\ \A j \in DOMAIN stmt.args :
                  FaultOf(m, stmt.args[j]) # "" =>
                      Reported(FaultOf(m, stmt.args[j]), <<m, i, j>>)
            /\ ~HasDefinition(stmt.name, "Macro") =>
                  Reported("DefinitionNotFound", <<m, i, 0>>)
            /\ \A d \in InvokedBy(m) :
                  (ast[d].name = stmt.name /\ Len(ast[d].args) # Len(stmt.args)) =>
                      \E k \in Diagnostics("MacroArgumentCountMismatch") :
                          /\ analysis_errors[k].at = <<m, i, 0>>
                          /\ analysis_errors[k].items = <<d>>

C4_EveryFaultReported ==
    pc = "check" =>
        \A m \in Visited : \A i \in DOMAIN ast[m].body : StatementReported(m, i)

\* one macro with faults at three places or more, and a fault in a macro it
\* invokes
C4_ManyFaults ==
    /\ pc = "check"
    /\ \E m \in Visited :
          /\ Cardinality({analysis_errors[k].at :
                k \in {j \in DOMAIN analysis_errors :
                          analysis_errors[j].scope = m
                          /\ analysis_errors[j].at # <<>>}}) >= 3
          /\ \E k \in DOMAIN analysis_errors :
                /\ analysis_errors[k].scope \in InvokedBy(m) \ {m}
                /\ analysis_errors[k].at # <<>>

----------------------------------------------------------------------------
\* C5: once the definition table, the override check or the analysis emitted
\* a diagnostic, expansion and assembly are never started, nothing is printed
\* and the run ends with exit status 1; bytecode is printed only when the
\* diagnostic buffer is empty.

C5_NoCodeOnDiagnostics ==
    /\ analysis_errors # <<>> =>
          /\ entry_point_code = Failed("none")
          /\ pc \notin {"wrap", "print"}
          /\ stdout = <<>>
          /\ pc = "exited" => exit_code = 1
    /\ stdout # <<>> => analysis_errors = <<>>

\* a run with diagnostics has ended
C5_EndedOnDiagnostics ==
    /\ pc = "exited" /\ analysis_errors # <<>>
    /\ exit_code = 1 /\ stdout = <<>>

----------------------------------------------------------------------------
\* C6: analyze_entry_point emits exactly EntryPointNotFound and analyses
\* nothing when the name has no definition or its definition is no macro;
\* for a macro with parameters it emits EntryPointHasArgs and goes on to
\* analyse the body.

AtEntryPoint ==
    /\ pc = "loop" /\ to_analyze_stack # <<>>
    /\ Last(to_analyze_stack).name \notin analyzed_macros

EntryPointOutcome(name) ==
    IF EntryMacro(name) = {}
    THEN /\ analysis_errors' = Append(analysis_errors, EntryPointNotFound(name))
         /\ frames' = <<>>
         /\ to_analyze_stack' = to_analyze_stack
    ELSE \E d \in EntryMacro(name) :
            /\ analysis_errors' = analysis_errors \o
                  (IF ast[d].args # <<>> THEN <<EntryPointHasArgs(d)>> ELSE <<>>)
            /\ frames' = <<Frame(d, "enter", 1, <<>>)>>

C6_EntryPoint ==
    [][/\ AtEntryPoint => EntryPointOutcome(Last(to_analyze_stack).name)
       /\ (pc = "analyze" /\ frames = <<>>) => analysis_errors' = analysis_errors
      ]_vars

\* the body of an entry point with parameters was analysed
C6_HasArgsBodyAnalysed ==
    \E k \in Diagnostics("EntryPointHasArgs") :
        \E j \in Diagnostics("MacroArgNotFound") :
            /\ k < j
            /\ analysis_errors[j].scope = analysis_errors[k].scope

----------------------------------------------------------------------------
\* C7: when the inclusions reachable from the entry point (__codesize and
\* __codeoffset) contain a cycle, the analysis emits RecursiveCodeInclusion.

\* the names reachable from a set of names by inclusion
RECURSIVE IncludedBelow(_)
IncludedBelow(S) ==
    IF UNION {IncludesOf(n) : n \in S} \subseteq S THEN S
    ELSE IncludedBelow(S \cup UNION {IncludesOf(n) : n \in S})

InclusionCycle ==
    \E n \in EntryNames({entry_point}) :
        EntryMacro(n) # {} /\ n \in IncludedBelow(IncludesOf(n))

C7_RecursiveInclusionReported ==
    (pc = "check" /\ InclusionCycle) => Diagnostics("RecursiveCodeInclusion") # {}

----------------------------------------------------------------------------
\* C9: overriding a constant, a literal or a free storage pointer, with the
\* value it evaluates to without overrides leaves the constants mapping and
\* the output bytes as they are without the override.

WithoutOverrides == CompileGlobals_new(TRUE, allows_push0(evm_version), unique_defs, <<>>)

\* the command line overrides one constant with its own value
IdempotentOverride ==
    /\ Len(constant_overrides) = 1
    /\ constant_overrides[1].name \in DOMAIN WithoutOverrides.constants
    /\ constant_overrides[1].value
          = WithoutOverrides.constants[constant_overrides[1].name]

C9_OverrideIdempotence ==
    /\ (pc = "check" /\ analysis_errors = <<>>) =>
          \A c \in DOMAIN WithoutOverrides.constants :
              /\ CompileGlobals_new(TRUE, allows_push0(evm_version), unique_defs,
                    <<Override(c, WithoutOverrides.constants[c])>>).constants
                 = WithoutOverrides.constants
              /\ compile_entry_point(
                    CompileGlobals_new(TRUE, allows_push0(evm_version), unique_defs,
                        <<Override(c, WithoutOverrides.constants[c])>>),
                    entry_point)
                 = compile_entry_point(WithoutOverrides, entry_point)
    /\ ((pc = "wrap" \/ (pc = "print" /\ ~add_default_constructor))
        /\ IdempotentOverride) =>
          /\ config.constants = WithoutOverrides.constants
          /\ entry_point_code = compile_entry_point(WithoutOverrides, entry_point)

\* code that pushes two free storage pointers was generated under an
\* override of the first with its own value
C9_PointerOverridden ==
    /\ pc = "print" /\ IdempotentOverride
    /\ ast[unique_defs[constant_overrides[1].name]].expr.fsp
    /\ \E i \in DOMAIN ast[unique_defs[entry_point]].body :
          /\ ast[unique_defs[entry_point]].body[i].t = "ConstantReference"
          /\ ast[unique_defs[entry_point]].body[i].name = constant_overrides[1].name
    /\ \E i \in DOMAIN ast[unique_defs[entry_point]].body :
          /\ ast[unique_defs[entry_point]].body[i].t = "ConstantReference"
          /\ ast[unique_defs[entry_point]].body[i].name # constant_overrides[1].name
          /\ ast[unique_defs[ast[unique_defs[entry_point]].body[i].name]].expr.fsp

----------------------------------------------------------------------------
\* C10: in the assembled output every Direct(m) reference is encoded as the
\* offset of Mark(m) in that same output and every Delta(a, b) reference as
\* offset(b) - offset(a), the offsets being those under the widths finally
\* chosen.

\* the output read back item by item: where each item starts, the bytes it
\* takes and, for a pushed reference, the integer its immediate carries (the
\* width is taken from the PUSH opcode found in the output)
RECURSIVE Observe(_, _, _)
Observe(stream, out, at) ==
    IF stream = <<>> THEN <<>>
    ELSE IF Head(stream).t # "Ref"
    THEN <<[at |-> at, size |-> Len(Head(stream).bytes), value |-> 0]>>
         \o Observe(Tail(stream), out, at + Len(Head(stream).bytes))
    ELSE IF at + 1 > Len(out)
    THEN <<[at |-> at, size |-> 0, value |-> -1]>> \o Observe(Tail(stream), out, at)
    ELSE <<[at |-> at, size |-> 1 + (out[at + 1] - OpByte("PUSH0")),
            value |-> U256_to_nat(SubSeq(out, at + 2,
                                         at + 1 + (out[at + 1] - OpByte("PUSH0"))))]>>
         \o Observe(Tail(stream), out, at + 1 + (out[at + 1] - OpByte("PUSH0")))

\* the observed offset of a mark
ObservedOffset(stream, observed, id) ==
    observed[CHOOSE k \in DOMAIN stream :
                /\ stream[k].t = "Mark" /\ stream[k].a = id
                /\ \A j \in DOMAIN stream :
                      (stream[j].t = "Mark" /\ stream[j].a = id) => k <= j].at

OffsetsConsistent(stream, out, observed) ==
    /\ observed # <<>> =>
          Last(observed).at + Last(observed).size = Len(out)
    /\ \A k \in DOMAIN stream :
          IF stream[k].t = "Ref"
          THEN /\ observed[k].size \in 2..33
               /\ observed[k].value =
                    IF stream[k].ref_type = "Direct"
                    THEN ObservedOffset(stream, observed, stream[k].a)
                    ELSE ObservedOffset(stream, observed, stream[k].b)
                         - ObservedOffset(stream, observed, stream[k].a)
          ELSE SubSeq(out, observed[k].at + 1, observed[k].at + observed[k].size)
                  = stream[k].bytes

C10_MarkOffsetConsistency ==
    asm_pc = "done" =>
        /\ OffsetsConsistent(asm_stream, assembled, Observe(asm_stream, assembled, 0))
        /\ assemble(config, asm_stream) = Ok(assembled)

\* a minimised output in which a label moved past one byte because another
\* reference was widened
C10_WidenedTwice ==
    /\ asm_pc = "done" /\ config.minimize
    /\ ref_widths # next_widths(asm_stream, initial_widths(asm_stream))
    /\ ref_widths[7] = 2
    /\ next_widths(asm_stream, initial_widths(asm_stream))[7] = 1

----------------------------------------------------------------------------
\* C11: in minimised mode no pushed reference of the final output is encoded
\* with a PUSHk whose k is larger than the byte length of the value it
\* carries.

\* every pushed reference of the output has a width (read from its PUSH
\* opcode) of at most the byte length of its immediate, or of at most
\* `floor` when that is longer
WidthsAtMost(stream, observed, floor) ==
    \A k \in DOMAIN stream : stream[k].t = "Ref" =>
        \/ observed[k].size - 1 <= byte_len(U256_from(observed[k].value))
        \/ observed[k].size - 1 <= floor

\* C11 (as stated): k is never strictly larger than the byte length of the
\* resolved value, a value of 0 having the byte length 0.
C11_PushWidthMinimality ==
    (asm_pc = "done" /\ config.minimize) =>
        WidthsAtMost(asm_stream, Observe(asm_stream, assembled, 0), 0)

\* C11 (amended): in minimised mode no pushed reference is encoded with a
\* PUSHk whose k is larger than the byte length of its resolved value, except
\* that a reference resolving to 0 may take the one byte of PUSH1 0x00.
C11_PushWidthMinimalityFromOne ==
    (asm_pc = "done" /\ config.minimize) =>
        WidthsAtMost(asm_stream, Observe(asm_stream, assembled, 0), MinRefWidth)

\* a minimised output with a reference of two bytes, widened from one, next
\* to a reference that resolves to 0 (the size of an empty section)
C11_ZeroBesideWidened ==
    /\ asm_pc = "done" /\ config.minimize
    /\ resolve(asm_stream, ref_widths, asm_stream[2]) = 0
    /\ ref_widths[2] = 1
    /\ ref_widths[3] = 2
    /\ ref_widths[7] = 2

----------------------------------------------------------------------------
\* C12: for every assembly stream the minimised output is at most as long as
\* the maximised output, and strictly shorter when the stream has a pushed
\* reference whose resolved value fits in fewer than 32 bytes.

\* the stream has a pushed reference whose value under `widths` takes fewer
\* than 32 bytes
HasShortReference(stream, widths) ==
    \E k \in DOMAIN stream :
        /\ stream[k].t = "Ref"
        /\ byte_len(U256_from(resolve(stream, widths, stream[k]))) < MaxRefWidth

ShorterMinimised(stream, minimised, maximised) ==
    /\ Len(minimised) <= Len(maximised)
    /\ HasShortReference(stream, fixed_point_widths(stream, initial_widths(stream)))
          => Len(minimised) < Len(maximised)

C12_MinimisedAtMostMaximised ==
    asm_pc = "done" =>
        IF config.minimize
        THEN ShorterMinimised(asm_stream, assembled, assemble_maximized(asm_stream))
        ELSE ShorterMinimised(asm_stream, assemble_minimized(asm_stream), assembled)

\* a maximised output of a stream whose three references each take the 32
\* bytes although their values fit in one or two
C12_MaximisedWithReferences ==
    /\ asm_pc = "done" /\ ~config.minimize
    /\ HasShortReference(asm_stream, ref_widths)
    /\ Len(assembled) > Len(asm_stream[4].bytes) + 3 * MaxRefWidth

----------------------------------------------------------------------------
\* C13: for a runtime R of 1..32 bytes (leading zero bytes included) the
\* initcode of the default constructor, run from an empty memory with
\* RETURNDATASIZE = 0, returns exactly the bytes of R: R is stored
\* right-aligned in the word at memory offset 0 and the returned window is
\* offset 32 - n, size n.

\* The EVM on straight-line code: words are U256 values, the top of the
\* stack is its last element, memory grows in words of 32 bytes.
Machine(at, stack, memory, status, offset, size) ==
    [at |-> at, stack |-> stack, memory |-> memory, status |-> status,
     offset |-> offset, size |-> size]

\* the memory extended to hold `size` bytes from `offset` on
Expand(memory, offset, size) ==
    IF size = 0 \/ offset + size <= Len(memory) THEN memory
    ELSE memory \o Zeros(((offset + size + WordSize - 1) \div WordSize) * WordSize
                          - Len(memory))

WriteMemory(memory, offset, bytes) ==
    [k \in 1..Len(Expand(memory, offset, Len(bytes))) |->
        IF k > offset /\ k <= offset + Len(bytes) THEN bytes[k - offset]
        ELSE Expand(memory, offset, Len(bytes))[k]]

\* `size` bytes of `bytes` from `offset` on, zero beyond the end
ReadPadded(bytes, offset, size) ==
    [k \in 1..size |-> IF offset + k <= Len(bytes) THEN bytes[offset + k] ELSE 0]

Pop(m, n) == SubSeq(m.stack, 1, Len(m.stack) - n)

\* the n-th word from the top, as a small number
Arg(m, n) == U256_to_nat(m.stack[Len(m.stack) + 1 - n])

Invalid(m) == [m EXCEPT !.status = "invalid"]

\* one instruction
Execute(code, m) ==
    LET op == code[m.at + 1]
        needs == CASE op = OpByte("MSTORE") -> 2 [] op = OpByte("RETURN") -> 2
                   [] op = OpByte("CODECOPY") -> 3 [] op = OpByte("DUP1") -> 1
                   [] op = OpByte("ADD") -> 2 [] OTHER -> 0
    IN IF Len(m.stack) < needs
          \/ \E n \in 1..needs :
                /\ n # 2 \/ op # OpByte("MSTORE")
                /\ Len(m.stack[Len(m.stack) + 1 - n]) > 2
       THEN Invalid(m)
       ELSE CASE op = OpByte("STOP") -> [m EXCEPT !.status = "stop"]
         [] op >= OpByte("PUSH0") /\ op <= OpByte("PUSH0") + WordSize ->
              [m EXCEPT !.at = @ + 1 + (op - OpByte("PUSH0")),
                        !.stack = Append(@, from_be_slice(
                            ReadPadded(code, m.at + 1, op - OpByte("PUSH0"))))]
         [] op = OpByte("RETURNDATASIZE") ->
              [m EXCEPT !.at = @ + 1, !.stack = Append(@, U256_from(0))]
         [] op = OpByte("MSIZE") ->
              [m EXCEPT !.at = @ + 1, !.stack = Append(@, U256_from(Len(m.memory)))]
         [] op = OpByte("DUP1") ->
              [m EXCEPT !.at = @ + 1, !.stack = Append(@, Last(m.stack))]
         [] op = OpByte("JUMPDEST") -> [m EXCEPT !.at = @ + 1]
         [] op = OpByte("MSTORE") ->
              [m EXCEPT !.at = @ + 1, !.stack = Pop(m, 2),
                        !.memory = WriteMemory(@, Arg(m, 1),
                                       be_bytes(m.stack[Len(m.stack) - 1], WordSize))]
         [] op = OpByte("CODECOPY") ->
              [m EXCEPT !.at = @ + 1, !.stack = Pop(m, 3),
                        !.memory = WriteMemory(@, Arg(m, 1),
                                       ReadPadded(code, Arg(m, 2), Arg(m, 3)))]
         [] op = OpByte("RETURN") ->
              [m EXCEPT !.status = "return", !.stack = Pop(m, 2),
                        !.memory = Expand(@, Arg(m, 1), Arg(m, 2)),
                        !.offset = Arg(m, 1), !.size = Arg(m, 2)]
         [] OTHER -> Invalid(m)

\* the machine when it halts (running off the code is a STOP)
RECURSIVE Run(_, _)
Run(code, m) ==
    IF m.status # "running" THEN m
    ELSE IF m.at >= Len(code) THEN [m EXCEPT !.status = "stop"]
    ELSE Run(code, Execute(code, m))

\* the initcode run from an empty stack and an empty memory
Deploy(code) == Run(code, Machine(0, <<>>, <<>>, "running", 0, 0))

Returned(m) == SubSeq(m.memory, m.offset + 1, m.offset + m.size)

ReturnsSmallRuntime(m, runtime) ==
    /\ m.status = "return"
    /\ Returned(m) = runtime
    /\ SubSeq(m.memory, 1, WordSize) = Zeros(WordSize - Len(runtime)) \o runtime
    /\ m.offset = WordSize - Len(runtime)
    /\ m.size = Len(runtime)

C13_SmallRuntimeReturned ==
    [][(pc = "wrap" /\ Len(entry_point_code.bytes) \in 1..WordSize)
          => /\ entry_point_code'.status = "ok"
             /\ ReturnsSmallRuntime(Deploy(entry_point_code'.bytes),
                                    entry_point_code.bytes)]_vars

\* the initcode of the runtime 00 00 61 was built and printed: PUSH1 61
\* RETURNDATASIZE MSTORE PUSH1 03 PUSH1 1d RETURN
C13_LeadingZerosWrapped ==
    /\ pc = "exited"
    /\ entry_point_code = Ok(<<96, 97, 61, 82, 96, 3, 96, 29, 243>>)
    /\ Returned(Deploy(entry_point_code.bytes)) = <<0, 0, 97>>

----------------------------------------------------------------------------
\* C14: a literal or constant value v is emitted as the minimum-width push
\* carrying v: PUSHk with k = bytelen(v) and v as big-endian immediate when
\* v != 0; when v = 0, PUSH0 if and only if the EVM version is shanghai,
\* cancun or eof, and PUSH1 0x00 on paris.

\* the push of the claim, as bytes
MinimalPush(v, version) ==
    IF v # U256_from(0) THEN <<OpByte("PUSH0") + Len(v)>> \o v
    ELSE IF version \in {"shanghai", "cancun", "eof"} THEN <<OpByte("PUSH0")>>
    ELSE <<OpByte("PUSH0") + 1, 0>>

C14_MinimalPush ==
    \A v \in ValuePool :
        (ast = PushFile(v) /\ pc = "print") =>
            entry_point_code =
                Ok(MinimalPush(v, evm_version) \o MinimalPush(v, evm_version)
                   \o MinimalPush(U256_from(0), evm_version))

\* cancun: the 32 bytes ff .. ff were pushed twice with PUSH32, and the free
\* storage pointer 0 with PUSH0
C14_WidestAndPush0 ==
    /\ pc = "exited" /\ stdout # <<>>
    /\ evm_version = "cancun"
    /\ ast = PushFile([k \in 1..WordSize |-> 255])
    /\ Len(entry_point_code.bytes) = 2 * (WordSize + 1) + 1

----------------------------------------------------------------------------
\* C15: semantic analysis ends on every program, cyclic invocation graphs
\* included: on entering a macro whose name is already on the invocation
\* stack the analyser emits the recursion diagnostic and does not descend
\* into it, and the invocation stack never gets deeper than the number of
\* distinct macro names plus one.

MacroNames == {ast[d].name : d \in {j \in DOMAIN ast : ast[j].kind = "Macro"}}

AtMacroEntry == pc = "analyze" /\ frames # <<>> /\ Top.stage = "enter"

\* a macro of the name of the entered one is among the callers on the stack
EnteredTwice ==
    ast[Top.m].name \in {ast[invoke_stack[k].m].name : k \in DOMAIN invoke_stack}

AnalysisOver == pc \in {"check", "exited"}

C15_AnalysisTerminates ==
    /\ [](Len(invoke_stack) <= Cardinality(MacroNames) + 1)
    /\ [][(AtMacroEntry /\ EnteredTwice) =>
            /\ analysis_errors' =
                  Append(analysis_errors, RecursiveMacroInvocation(invoke_stack))
            /\ frames' = Front(frames)
            /\ UNCHANGED <<label_stack, invoke_stack, to_analyze_stack>>]_vars
    /\ <>AnalysisOver

\* the analysis of a program ended after it cut a cycle at the deepest
\* stack: as many invocations as there are macro names
C15_DeepestCycleCut ==
    /\ pc = "check"
    /\ \E k \in Diagnostics("RecursiveMacroInvocation") :
          /\ Len(analysis_errors[k].invocation_chain) = Cardinality(MacroNames)
          /\ Cardinality(MacroNames) >= 3

----------------------------------------------------------------------------
\* C16: when the analysis ends with an empty diagnostic buffer, the expansion
\* of the entry point ends: the recursion of generate_for_macro over macro
\* calls and of generate_for_entrypoint over included macros is of bounded
\* depth.

\* generate_for_entrypoint was called
Generated == entry_point_code # Failed("none")

C16_ExpansionTerminates ==
    (Generated /\ analysis_errors = <<>>) => entry_point_code.status # "overflow"

----------------------------------------------------------------------------
\* C17: the fixed-point iteration of the minimised mode starts with every
\* pushed reference at width 1, never decreases a width from one round to
\* the next, and reaches a round in which no width changes after at most as
\* many rounds as the stream has references.

References(stream) == {k \in DOMAIN stream : stream[k].t = "Ref"}

Minimising == asm_pc \in {"rounds", "done"} /\ config.minimize

StartsAtOne ==
    (Minimising /\ asm_rounds = 0) =>
        \A k \in References(asm_stream) : ref_widths[k] = MinRefWidth

NeverNarrows ==
    Minimising => \A k \in References(asm_stream) : ref_widths'[k] >= ref_widths[k]

RECURSIVE Widened(_, _)
\* the bytes by which the references were widened since the start
Widened(widths, refs) ==
    IF refs = {} THEN 0
    ELSE LET k == CHOOSE r \in refs : TRUE
         IN (widths[k] - MinRefWidth) + Widened(widths, refs \ {k})

\* C17 (as stated): at most as many rounds change a width as there are
\* references.
C17_RoundsWithinReferences ==
    /\ []StartsAtOne
    /\ [][NeverNarrows]_vars
    /\ [](Minimising => asm_rounds <= Cardinality(References(asm_stream)))

\* C17 (amended): the iteration starts with every pushed reference at width
\* 1, never decreases a width, and every round that changes a width widens a
\* reference by at least one byte, so that at most 31 rounds per reference
\* change a width before the round in which none changes.
C17_RoundsWithinWidening ==
    /\ []StartsAtOne
    /\ [][NeverNarrows]_vars
    /\ [](Minimising =>
            /\ asm_rounds <= Widened(ref_widths, References(asm_stream))
            /\ \A k \in References(asm_stream) : ref_widths[k] <= MaxRefWidth)

\* the push of the far label was widened to two bytes and then to three:
\* two rounds changed a width in a stream of one reference
C17_WidenedTwiceInARow ==
    /\ asm_pc = "done" /\ config.minimize
    /\ asm_stream = FarLabelStream
    /\ asm_rounds = 2
    /\ ref_widths[2] = 3

----------------------------------------------------------------------------
\* C18: constants are evaluated in the order of the unique definition
\* mapping: a constant with a literal value v evaluates to v and does not
\* advance the counter, the i-th free storage pointer (from 0) evaluates to
\* i, so the k free storage pointers get the distinct values 0..k-1.

ConstantNames == {n \in DOMAIN unique_defs : ast[unique_defs[n]].kind = "Constant"}

PointerNames == {n \in ConstantNames : ast[unique_defs[n]].expr.fsp}

\* the free storage pointers the mapping holds before a name
PointersBefore(n) == {c \in PointerNames : Rank(c) < Rank(n)}

EvaluatedInOrder(constants) ==
    /\ DOMAIN constants = ConstantNames
    /\ \A n \in ConstantNames \ PointerNames :
          constants[n] = ast[unique_defs[n]].expr.value
    /\ \A n \in PointerNames :
          constants[n] = U256_from(Cardinality(PointersBefore(n)))
    /\ {constants[n] : n \in PointerNames}
          = {U256_from(i) : i \in 0..(Cardinality(PointerNames) - 1)}

C18_ConstantEvaluation ==
    (Generated /\ constant_overrides = <<>>) => EvaluatedInOrder(config.constants)

\* a file that defines T = FREE_STORAGE_POINTER(), G = 0x02 and
\* F = FREE_STORAGE_POINTER() in this order (and K = 0x01) was compiled:
\* F is 0, T is 1
C18_PointersAroundLiterals ==
    /\ pc = "print" /\ constant_overrides = <<>>
    /\ PointerNames = {"F", "T"}
    /\ unique_defs["T"] < unique_defs["F"]
    /\ config.constants["F"] = U256_from(0)
    /\ config.constants["G"] = <<2>>
    /\ config.constants["T"] = <<1>>

----------------------------------------------------------------------------
\* C19: after any sequence of enter_context / insert / leave_context, a
\* leave_context restores the bindings to exactly what they were at the
\* matching enter_context (bindings of outer contexts are never removed or
\* altered); get returns the value of the most recently inserted live
\* binding of the name; leave_context with no open context returns None and
\* changes nothing.

IsPrefix(s, t) == Len(s) <= Len(t) /\ SubSeq(t, 1, Len(s)) = s

\* the value of the newest binding of a name, scanning from the newest
RECURSIVE Newest(_, _)
Newest(bindings, name) ==
    IF bindings = <<>> THEN None
    ELSE IF Last(bindings)[1] = name THEN Some(Last(bindings)[2])
    ELSE Newest(Front(bindings), name)

\* the bindings of the contexts still open are all there, in their order
OuterBindingsKept ==
    /\ \A k \in DOMAIN ls_saved : IsPrefix(ls_saved[k], label_stack.label_stack)
    /\ \A k \in DOMAIN ls_saved : k > 1 => IsPrefix(ls_saved[k - 1], ls_saved[k])

\* what the call that led to this state did
LastCallRight ==
    /\ ls_last.op = "get" =>
          ls_last.result[2] = Newest(label_stack.label_stack, ls_last.result[1])
    /\ ls_last.op = "insert" =>
          /\ Last(label_stack.label_stack) = ls_last.result[1]
          /\ get(label_stack, ls_last.result[1][1]) = Some(ls_last.result[1][2])

\* a leave_context step: back to the bindings of the matching enter_context
\* and Some(their number), or None and no change when no context is open
LeaveRestores ==
    ls_last'.op = "leave_context" =>
        IF ls_saved = <<>>
        THEN label_stack' = label_stack /\ ls_last'.result = None
        ELSE /\ label_stack'.label_stack = Last(ls_saved)
             /\ ls_last'.result = Some(Len(Last(ls_saved)))
             /\ Len(label_stack'.context_sizes) = Len(ls_saved) - 1

C19_LabelStackContexts ==
    /\ [](pc = "labels" => (OuterBindingsKept /\ LastCallRight))
    /\ [][pc = "labels" => LeaveRestores]_vars

\* an inner context, entered after lbl was bound in an outer one, was left:
\* lbl has its outer value and nothing else is bound
C19_ShadowLeft ==
    /\ pc = "labels"
    /\ ls_last = Call("leave_context", Some(1))
    /\ label_stack.label_stack = <<<<"lbl", 0>>>>
    /\ label_stack.context_sizes = <<0>>
    /\ get(label_stack, "lbl") = Some(0)
    /\ get(label_stack, "x") = None

----------------------------------------------------------------------------
\* C20: the arguments of a macro invocation are evaluated in the caller,
\* before the label scope of the callee is entered: a label passed as an
\* argument is the binding visible at the call, also when the callee defines
\* a label of that name, a <param> passed on is resolved through the
\* parameters of the caller, and in the callee <param> expands to the item
\* bound at the call. The analyser checks the arguments in the caller's scope.

\* the statement of MAIN that invokes A and the statement of A that invokes B
MainCall(main_lbl) == <<1, IF main_lbl THEN 2 ELSE 1, 1>>
InnerCall(callee_lbl) == <<2, IF callee_lbl THEN 3 ELSE 2, 1>>

\* the diagnostics that the scope of each caller asks for: MAIN has no
\* parameter and sees lbl only when it defines it; A has the parameter x and
\* sees its own lbl or that of MAIN
CallDiagnostics(main_lbl, callee_lbl, arg, inner) ==
    (IF arg = LabelReference("lbl") /\ ~main_lbl
     THEN {<<"LabelNotFound", MainCall(main_lbl)>>}
     ELSE IF arg.t = "MacroArgReference"
     THEN {<<"MacroArgNotFound", MainCall(main_lbl)>>}
     ELSE {})
    \cup
    (IF inner = LabelReference("lbl") /\ ~main_lbl /\ ~callee_lbl
     THEN {<<"LabelNotFound", InnerCall(callee_lbl)>>}
     ELSE IF inner = MacroArgReference("y")
     THEN {<<"MacroArgNotFound", InnerCall(callee_lbl)>>}
     ELSE {})

\* the push that the argument of MAIN stands for: lbl of MAIN is at offset 0
OuterPush(arg) ==
    IF arg = LabelReference("lbl") THEN <<96, 0>> ELSE <<96, 1>>

\* the push that the argument of A stands for: the lbl of A follows that of
\* MAIN, and x is what MAIN passed
InnerPush(main_lbl, callee_lbl, arg, inner) ==
    IF inner = LabelReference("lbl")
    THEN IF callee_lbl THEN <<96, IF main_lbl THEN 1 ELSE 0>> ELSE <<96, 0>>
    ELSE OuterPush(arg)

\* the code of the file: the labels as JUMPDEST and a push for each <param>
CallCode(main_lbl, callee_lbl, arg, inner) ==
    (IF main_lbl THEN <<91>> ELSE <<>>) \o (IF callee_lbl THEN <<91>> ELSE <<>>)
        \o OuterPush(arg) \o <<91>> \o InnerPush(main_lbl, callee_lbl, arg, inner)

AnalysisReturned == pc \in {"check", "print", "exited"}

C20_ArgumentsInCallerScope ==
    \A main_lbl \in BOOLEAN, callee_lbl \in BOOLEAN, arg \in ArgPool, inner \in InnerPool :
        ast = CallFile(main_lbl, callee_lbl, arg, inner) =>
            LET expected == CallDiagnostics(main_lbl, callee_lbl, arg, inner)
            IN /\ AnalysisReturned =>
                    /\ Len(analysis_errors) = Cardinality(expected)
                    /\ \A e \in expected : Reported(e[1], e[2])
               /\ Generated =>
                    /\ expected = {}
                    /\ entry_point_code =
                          Ok(CallCode(main_lbl, callee_lbl, arg, inner))
               /\ (pc = "exited" /\ expected = {}) => (Generated /\ exit_code = 0)

\* the lbl of MAIN went through A and B, which both define a lbl of their
\* own: both pushes are the offset of the lbl of MAIN
C20_OuterLabelPassedDown ==
    /\ ast = CallFile(TRUE, TRUE, LabelReference("lbl"), MacroArgReference("x"))
    /\ pc = "exited"
    /\ exit_code = 0
    /\ analysis_errors = <<>>
    /\ entry_point_code = Ok(<<91, 91, 96, 0, 91, 96, 0>>)

----------------------------------------------------------------------------
\* C21: the labels of a jump table are looked up in the macro that directly
\* holds the __tablestart/__tablesize only: when the label is defined in a
\* caller further up and not in that macro, the reference is rejected with
\* TableLabelNotFound and not resolved through the stack.

\* the place of the table builtin in A
TableRefAt(inner_lbl) == <<2, IF inner_lbl THEN 2 ELSE 1, 0>>

C21_TableLabelsOfDirectParent ==
    \A ref \in {BuiltinTableStart("T"), BuiltinTableSize("T")} :
        (ast = TableFile(Jumptable("T", 2, <<"lbl">>), FALSE, ref) /\ pc = "exited") =>
            /\ entry_point_code = Failed("none")
            /\ \E k \in Diagnostics("TableLabelNotFound") :
                    /\ analysis_errors[k].scope = 2
                    /\ analysis_errors[k].name = "lbl"

----------------------------------------------------------------------------
\* C22: __tablestart(r) and __tablesize(r) give DefinitionNotFound with
\* def_type "table" exactly when r names neither a jump table nor a code
\* table, and give no diagnostic when r names one: a program whose one
\* builtin is a reference to a table passes analysis.

NamesATable(table, ref) ==
    ref.name = table.name /\ table.kind \in {"Jumptable", "CodeTable"}

C22_TableReferenceChecked ==
    \A table \in TablePool, inner_lbl \in BOOLEAN, ref \in TableRefPool :
        (ast = TableFile(table, inner_lbl, ref) /\ AnalysisReturned) =>
            /\ (\E k \in Diagnostics("DefinitionNotFound") :
                    /\ analysis_errors[k].def_type = "table"
                    /\ analysis_errors[k].at = TableRefAt(inner_lbl))
                <=> ~NamesATable(table, ref)
            /\ NamesATable(table, ref) =>
                    \A k \in DOMAIN analysis_errors :
                        analysis_errors[k].at # TableRefAt(inner_lbl)

----------------------------------------------------------------------------
\* C23: every macro named by a __codesize/__codeoffset of an analysed body
\* is appended to the inclusion worklist and is then analysed as an entry
\* point of its own, with an empty label stack and an empty invocation
\* stack, so that a reference in it to a label that only the including macro
\* defines is reported as not found; a name that is no macro gives
\* DefinitionNotFound with def_type "macro", and a macro with parameters
\* gives NotYetSupported.

CodeBuiltins == {"BuiltinCodeSize", "BuiltinCodeOffset"}

\* the analyser is about to look at a __codesize/__codeoffset
AtCodeRef ==
    /\ pc = "analyze" /\ frames # <<>> /\ Top.stage = "body"
    /\ Top.i <= Len(ast[Top.m].body)
    /\ ast[Top.m].body[Top.i].t \in CodeBuiltins

\* what the file says about the name the statement refers to
CodeRefDiagnostics(m, i) ==
    LET r  == ast[m].body[i].name
        at == <<m, i, 0>>
    IN (IF ~HasDefinition(r, "Macro")
        THEN <<DefinitionNotFound(m, "macro", r, at)>> ELSE <<>>)
       \o (IF \E d \in DOMAIN ast :
                 ast[d].kind = "Macro" /\ ast[d].name = r /\ ast[d].args # <<>>
           THEN <<NotYetSupported("code introspection for macros with arguments", at)>>
           ELSE <<>>)

CodeRefQueued ==
    AtCodeRef =>
        /\ to_analyze_stack' =
              Append(to_analyze_stack, [name |-> ast[Top.m].body[Top.i].name])
        /\ analysis_errors' = analysis_errors \o CodeRefDiagnostics(Top.m, Top.i)

\* a frame leaves the worklist only when its name is among the analysed ones
LeavesAnalysed ==
    \A k \in DOMAIN to_analyze_stack :
        \/ to_analyze_stack[k].name \in analyzed_macros'
        \/ \E j \in DOMAIN to_analyze_stack' : to_analyze_stack'[j] = to_analyze_stack[k]

\* the labels a macro defines itself
OwnLabels(d) ==
    {ast[d].body[i].name : i \in {j \in DOMAIN ast[d].body :
                                      ast[d].body[j].t = "LabelDefinition"}}

\* every analysed entry point saw its own labels only, with no caller
AnalysedOnItsOwn ==
    \A n \in analyzed_macros :
        (DefinitionsNamed(n) # <<>> /\ ast[DefinitionsNamed(n)[1]].kind = "Macro") =>
            LET d == DefinitionsNamed(n)[1]
            IN \A i \in DOMAIN ast[d].body :
                  (ast[d].body[i].t = "LabelReference"
                   /\ ast[d].body[i].name \notin OwnLabels(d)) =>
                      \E k \in DOMAIN analysis_errors :
                          analysis_errors[k] =
                              LabelNotFound(d, <<>>, ast[d].body[i].name, <<d, i, 0>>)

C23_InclusionsAnalysedAsEntryPoints ==
    /\ [][CodeRefQueued /\ LeavesAnalysed]_vars
    /\ [](pc = "check" => (to_analyze_stack = <<>> /\ AnalysedOnItsOwn))

\* MAIN defines lbl and includes A, which refers to lbl: not found in A
C23_IncludedLabelNotFound ==
    /\ pc = "check"
    /\ ast = File(Body(<<>>, <<LabelDefinition("lbl"), BuiltinCodeSize("A"),
                               InvokeMacro("B", <<>>), BuiltinCodeOffset("A")>>),
                  Body(<<>>, <<LabelReference("lbl")>>),
                  Body(<<>>, <<Op("STOP")>>))
    /\ "A" \in analyzed_macros
    /\ analysis_errors = <<LabelNotFound(2, <<>>, "lbl", <<2, 1, 0>>)>>

----------------------------------------------------------------------------
(* The assembly stream of the compiled entry point, as generate_for_entrypoint
   builds it from the compile globals *)

\* the entry point was expanded and assembled
Compiled == pc \in {"wrap", "print"}

CompiledEntry == config.defs[entry_point]

\* the state after the inline expansion of the entry point
Expansion ==
    generate_for_macro(config, CompiledEntry, <<>>,
        entrypoint_state(config, CompiledEntry,
            code_tables_from(config.defs, SortedKeys(DOMAIN config.defs), 2)),
        1)

\* the stream handed to the assembler
StreamOf(g) ==
    final_stream(g.included_code_tables,
                 emit_included_macros(config, Tail(g.included_macros), g.asm, 0))

\* the positions of an item in a stream
Places(stream, item) == {j \in DOMAIN stream : stream[j] = item}

\* the builtins of some kinds in the order the expansion of a body meets
\* them, through the macros it invokes
RECURSIVE BuiltinsIn(_, _)
BuiltinsIn(body, kinds) ==
    IF body = <<>> THEN <<>>
    ELSE (IF Head(body).t \in kinds THEN <<Head(body)>>
          ELSE IF Head(body).t = "InvokeMacro"
          THEN BuiltinsIn(ast[config.defs[Head(body).name]].body, kinds)
          ELSE <<>>)
         \o BuiltinsIn(Tail(body), kinds)

\* the __codesize/__codeoffset statements of an expansion
CodeRefsIn(body) == BuiltinsIn(body, CodeBuiltins)

----------------------------------------------------------------------------
\* C24: in the expansion of one entry point every macro referenced by
\* __codesize/__codeoffset is in the included-macro worklist once and has one
\* (start, end) pair of marks: each __codesize of it emits Delta(start, end),
\* each __codeoffset Direct(start), and its code is emitted once, as
\* Mark(start), Data(bytes), Mark(end), however often and in whichever
\* nested macro it is referenced.

IncludedNamed(g, name) ==
    g.included_macros[CHOOSE k \in DOMAIN g.included_macros :
                          g.included_macros[k].name = name]

\* the references of the stream to the start marks of the included macros
IncludedRefs(g, stream) ==
    SelectSeq(stream, LAMBDA item :
        item.t = "Ref" /\ \E k \in DOMAIN g.included_macros :
                              g.included_macros[k].start_id = item.a)

ExpectedRefs(g, refs) ==
    [k \in DOMAIN refs |->
        IF refs[k].t = "BuiltinCodeSize"
        THEN Delta(IncludedNamed(g, refs[k].name).start_id,
                   IncludedNamed(g, refs[k].name).end_id)
        ELSE Direct(IncludedNamed(g, refs[k].name).start_id)]

IncludedOnce(g, stream) ==
    /\ \A j, k \in DOMAIN g.included_macros :
          j # k => /\ g.included_macros[j].name # g.included_macros[k].name
                   /\ g.included_macros[j].start_id # g.included_macros[k].start_id
    /\ {g.included_macros[k].name : k \in DOMAIN g.included_macros}
          = {ast[CompiledEntry].name}
              \cup {r.name : r \in Range(CodeRefsIn(ast[CompiledEntry].body))}
    /\ IncludedRefs(g, stream) = ExpectedRefs(g, CodeRefsIn(ast[CompiledEntry].body))
    /\ \A k \in 2..Len(g.included_macros) :
          LET inc == g.included_macros[k]
              code == generate_for_entrypoint(config, config.defs[inc.name], 1)
          IN /\ Cardinality(Places(stream, Mark(inc.start_id))) = 1
             /\ Cardinality(Places(stream, Mark(inc.end_id))) = 1
             /\ \A j \in Places(stream, Mark(inc.start_id)) :
                   /\ stream[j + 1] = Data(code.bytes)
                   /\ stream[j + 2] = Mark(inc.end_id)
    /\ Cardinality({j \in DOMAIN stream : stream[j].t = "Data"})
          = Len(g.included_macros) - 1
              + Cardinality({k \in DOMAIN g.included_code_tables :
                                g.included_code_tables[k].referenced})

IncludedOnceIn(g) == IncludedOnce(g, StreamOf(g))

C24_IncludedMacroOnce == Compiled => IncludedOnceIn(Expansion)

\* A is referenced by MAIN twice and by B, which MAIN invokes: one section
C24_ReferencedThriceOneSection ==
    /\ pc = "print"
    /\ ast = File(Body(<<>>, <<LabelDefinition("lbl"), BuiltinCodeSize("A"),
                               InvokeMacro("B", <<>>), BuiltinCodeOffset("A")>>),
                  Body(<<>>, <<Op("ADD")>>),
                  Body(<<>>, <<LabelDefinition("lbl"), BuiltinCodeOffset("A"),
                               LabelReference("lbl")>>))
    /\ entry_point_code = Ok(<<91, 96, 1, 91, 96, 10, 96, 3, 96, 10, 1>>)

----------------------------------------------------------------------------
\* C25: for a runtime R of n > 32 bytes the default constructor is the seven
\* items size reference, DUP1, start reference, RETURNDATASIZE, CODECOPY,
\* RETURNDATASIZE, RETURN followed by Mark(start), Data(R), Mark(end); once
\* assembled the size reference is n and the start reference the length of
\* the constructor before R, and the initcode run with RETURNDATASIZE = 0
\* copies and returns exactly R.

LargeConstructor(stream, runtime) ==
    /\ Len(stream) = 10
    /\ stream[8].t = "Mark" /\ stream[10].t = "Mark" /\ stream[8].a # stream[10].a
    /\ stream = <<Delta(stream[8].a, stream[10].a), AsmOp(<<128>>), Direct(stream[8].a),
                  AsmOp(<<61>>), AsmOp(<<57>>), AsmOp(<<61>>), AsmOp(<<243>>),
                  Mark(stream[8].a), Data(runtime), Mark(stream[10].a)>>

\* the value and the width of the push at an offset of the code
PushWidth(code, offset) == code[offset + 1] - OpByte("PUSH0")
PushValue(code, offset) ==
    U256_to_nat(from_be_slice(SubSeq(code, offset + 2, offset + 1 + PushWidth(code, offset))))

LargeInitcode(code, runtime) ==
    LET n      == Len(runtime)
        prefix == Len(code) - n
        w1     == PushWidth(code, 0)
        w2     == PushWidth(code, w1 + 2)
    IN /\ prefix > 0
       /\ SubSeq(code, prefix + 1, Len(code)) = runtime
       /\ w1 \in 1..WordSize /\ PushValue(code, 0) = n
       /\ code[w1 + 2] = 128
       /\ w2 \in 1..WordSize /\ PushValue(code, w1 + 2) = prefix
       /\ SubSeq(code, w1 + w2 + 4, prefix) = <<61, 57, 61, 243>>

ReturnsLargeRuntime(m, runtime) ==
    /\ m.status = "return"
    /\ m.offset = 0 /\ m.size = Len(runtime)
    /\ Returned(m) = runtime

C25_LargeRuntimeReturned ==
    [][(pc = "wrap" /\ Len(entry_point_code.bytes) > WordSize)
          => /\ LargeConstructor(generate_default_constructor(entry_point_code.bytes),
                                 entry_point_code.bytes)
             /\ entry_point_code'.status = "ok"
             /\ LargeInitcode(entry_point_code'.bytes, entry_point_code.bytes)
             /\ ReturnsLargeRuntime(Deploy(entry_point_code'.bytes),
                                    entry_point_code.bytes)]_vars

\* the initcode of a runtime of 33 bytes: PUSH1 21 DUP1 PUSH1 09
\* RETURNDATASIZE CODECOPY RETURNDATASIZE RETURN and the runtime
C25_Runtime33Wrapped ==
    /\ pc = "exited"
    /\ entry_point_code = Ok(<<96, 33, 128, 96, 9, 61, 57, 61, 243>> \o Fill(33))
    /\ Returned(Deploy(entry_point_code.bytes)) = Fill(33)

----------------------------------------------------------------------------
\* C26: the stream of generate_for_entrypoint is Mark(entry_start), the whole
\* inline expansion of the entry point, the data sections of the included
\* macros in the order of their first reference, the table sections and
\* Mark(entry_end): no data section stands between the items of the
\* executable expansion, and the bytes of a code table are there only when
\* the table was referenced in this expansion.

TableBuiltins == {"BuiltinTableStart", "BuiltinTableSize"}

\* the names of a sequence of statements, each at its first occurrence
RECURSIVE FirstNames(_, _)
FirstNames(refs, seen) ==
    IF refs = <<>> THEN <<>>
    ELSE IF Head(refs).name \in seen THEN FirstNames(Tail(refs), seen)
    ELSE <<Head(refs).name>> \o FirstNames(Tail(refs), seen \cup {Head(refs).name})

\* the section of a macro: its own assembled code between two marks
MacroSection(stream, at, name) ==
    /\ stream[at].t = "Mark" /\ stream[at + 2].t = "Mark"
    /\ stream[at + 1] = Data(generate_for_entrypoint(config, config.defs[name], 1).bytes)

TableSection(stream, at, name) ==
    /\ stream[at].t = "Mark" /\ stream[at + 2].t = "Mark"
    /\ stream[at + 1] = Data(ast[config.defs[name]].data)

Layout(g, stream, macros, tables) ==
    /\ Len(stream) = Len(g.asm) + 3 * Len(macros) + 3 * Len(tables) + 1
    /\ stream[1] = Mark(g.included_macros[1].start_id)
    /\ SubSeq(stream, 1, Len(g.asm)) = g.asm
    /\ \A k \in DOMAIN g.asm : g.asm[k].t # "Data"
    /\ \A k \in DOMAIN macros :
          MacroSection(stream, Len(g.asm) + 3 * k - 2, macros[k])
    /\ \A k \in DOMAIN tables :
          TableSection(stream, Len(g.asm) + 3 * Len(macros) + 3 * k - 2, tables[k])
    /\ Last(stream) = Mark(g.included_macros[1].end_id)

\* the macros in the order of their first reference, the entry point apart,
\* and the referenced code tables in the order of their names
LayoutOf(g) ==
    Layout(g, StreamOf(g),
           FirstNames(CodeRefsIn(ast[CompiledEntry].body), {entry_point}),
           SelectSeq(SortedKeys(DOMAIN config.defs), LAMBDA n :
               \E r \in Range(BuiltinsIn(ast[CompiledEntry].body, TableBuiltins)) :
                   r.name = n))

C26_OutputLayout == Compiled => LayoutOf(Expansion)

\* MAIN refers to the table T, includes A and refers to the table G: the
\* code of MAIN, the section of A, then the tables G and T
C26_SectionsAtTheTail ==
    /\ pc = "print"
    /\ ast = ExpFile(Body(<<>>, <<BuiltinTableSize("T"), BuiltinCodeSize("A"),
                                  BuiltinTableStart("G"), Op("STOP")>>),
                     Body(<<>>, <<Op("ADD")>>), Body(<<>>, <<Op("STOP")>>))
    /\ entry_point_code = Ok(<<96, 2, 96, 1, 96, 8, 0, 1, 1, 192, 254>>)

----------------------------------------------------------------------------
\* C27: the marks of the stream of one entry point come from one counter:
\* every Mark(id) is in the stream once (two expansions of a macro give the
\* same label two marks), and every Direct or Delta reference names marks
\* whose Mark item is in the stream, so that the assembler meets no
\* reference to an undefined mark.

MarkPlaces(stream) == {k \in DOMAIN stream : stream[k].t = "Mark"}

MarksSound(g, stream) ==
    /\ \A j, k \in MarkPlaces(stream) : stream[j].a = stream[k].a => j = k
    /\ \A k \in MarkPlaces(stream) : stream[k].a \in 0..(g.mark_tracker - 1)
    /\ \A k \in DOMAIN stream :
          stream[k].t = "Ref" =>
              /\ Places(stream, Mark(stream[k].a)) # {}
              /\ stream[k].ref_type = "Delta" => Places(stream, Mark(stream[k].b)) # {}

MarksSoundIn(g) == MarksSound(g, StreamOf(g))

C27_MarksUniqueAndDefined ==
    Compiled => (entry_point_code.status = "ok" /\ MarksSoundIn(Expansion))

\* A = { lbl: B() } was expanded twice: the marks of the entry point and one
\* mark for each lbl
C27_TwoExpansionsTwoMarks ==
    /\ pc = "print"
    /\ ast = File(Body(<<>>, <<InvokeMacro("A", <<>>), InvokeMacro("A", <<>>)>>),
                  Body(<<>>, <<LabelDefinition("lbl"), InvokeMacro("B", <<>>)>>),
                  Body(<<>>, <<LabelReference("lbl")>>))
    /\ entry_point_code = Ok(<<91, 96, 0, 91, 96, 3>>)
    /\ {StreamOf(Expansion)[k].a : k \in MarkPlaces(StreamOf(Expansion))} = 0..3

----------------------------------------------------------------------------
\* C28: the inclusion loop of main ends for every program, cyclic and
\* self-referential inclusions included: a name is analysed as an entry
\* point at most once, the frame removed after a step is the frame that was
\* processed and never one pushed during the step, every name pushed is in
\* the end analysed or skipped as analysed, and the loop ends with an empty
\* worklist.

WorklistNames == {to_analyze_stack[k].name : k \in DOMAIN to_analyze_stack}

\* analyze_entry_point is entered for a name that was not analysed before
AnalysedOnce ==
    /\ analyzed_macros \subseteq analyzed_macros'
    /\ (pc = "loop" /\ pc' = "analyze") =>
          /\ Last(to_analyze_stack).name \notin analyzed_macros
          /\ analyzed_macros' = analyzed_macros \cup {Last(to_analyze_stack).name}
          /\ idx_to_remove' = Len(to_analyze_stack)
          /\ to_analyze_stack' = to_analyze_stack

\* while a name is analysed its frame stays where it is, frames are pushed
\* behind it, and the frame that goes when the step ends is that frame
ProcessedFrameRemoved ==
    pc = "analyze" =>
        /\ idx_to_remove \in DOMAIN to_analyze_stack
        /\ IF pc' = "analyze"
           THEN /\ idx_to_remove' = idx_to_remove
                /\ Len(to_analyze_stack') >= Len(to_analyze_stack)
                /\ SubSeq(to_analyze_stack', 1, Len(to_analyze_stack)) = to_analyze_stack
           ELSE to_analyze_stack' =
                    SubSeq(to_analyze_stack, 1, idx_to_remove - 1)
                    \o SubSeq(to_analyze_stack, idx_to_remove + 1, Len(to_analyze_stack))

\* a frame skipped is the top frame, of a name analysed before
SkippedAnalysed ==
    (pc = "loop" /\ pc' = "loop") =>
        /\ Last(to_analyze_stack).name \in analyzed_macros
        /\ to_analyze_stack' = Front(to_analyze_stack)

C28_InclusionLoopTerminates ==
    /\ [][AnalysedOnce /\ ProcessedFrameRemoved /\ SkippedAnalysed]_vars
    /\ [](pc = "check" => to_analyze_stack = <<>>)
    /\ \A n \in {"MAIN", "A", "B"} :
          [](n \in WorklistNames => <>(n \notin WorklistNames /\ n \in analyzed_macros))
    /\ <>(AnalysisOver /\ to_analyze_stack = <<>>)

\* A and B include each other and MAIN includes both: each was analysed
\* once and the worklist is empty
C28_CyclicInclusionsAnalysed ==
    /\ pc = "check"
    /\ ast = File(Body(<<>>, <<BuiltinCodeSize("A"), BuiltinCodeOffset("B")>>),
                  Body(<<>>, <<BuiltinCodeSize("B")>>),
                  Body(<<>>, <<BuiltinCodeSize("A")>>))
    /\ analyzed_macros = {"MAIN", "A", "B"}
    /\ to_analyze_stack = <<>>

----------------------------------------------------------------------------
\* C29: when the analysis of a program ends without a diagnostic, every
\* lookup the expander makes without a fallback succeeds: each label
\* reference finds a binding on the label stack, each constant reference an
\* evaluated constant, each <param> a bound argument, each invoked or
\* included name a Macro of the unique mapping, and no invocation the
\* expander does not implement is met.

C29_CleanAnalysisNoPanic ==
    /\ (Generated /\ analysis_errors = <<>>) => entry_point_code.status # "panic"
    /\ (pc = "exited" /\ analysis_errors = <<>> /\ Generated) => exit_code # 101

\* a file with labels, parameters and nested invocations passed the analysis
\* and was expanded
C29_CleanFileExpanded ==
    /\ pc = "print"
    /\ analysis_errors = <<>>
    /\ ast = CallFile(TRUE, TRUE, LabelReference("lbl"), LabelReference("lbl"))
    /\ entry_point_code = Ok(<<91, 91, 96, 0, 91, 96, 1>>)

----------------------------------------------------------------------------
\* C30: a __codesize or __codeoffset of the macro that is being generated as
\* the entry point adds no worklist entry and emits no nested copy of the
\* macro: it uses the marks (entry_start, entry_end) of the entry point, so
\* that __codesize of the entry point is the length of the whole output, the
\* appended data sections included, and __codeoffset of it is 0.

\* the items of a stream that become one instruction each
InstructionItems(stream) == SelectSeq(stream, LAMBDA item : item.t \in {"Op", "Ref"})

\* the immediates of the first n instructions of a code from an offset on
RECURSIVE Immediates(_, _, _)
Immediates(code, at, n) ==
    IF n = 0 THEN <<>>
    ELSE LET op    == code[at + 1]
             width == IF op > OpByte("PUSH0") /\ op <= OpByte("PUSH0") + WordSize
                      THEN op - OpByte("PUSH0") ELSE 0
         IN <<from_be_slice(SubSeq(code, at + 2, at + 1 + width))>>
            \o Immediates(code, at + 1 + width, n - 1)

\* how many statements of a kind name the entry point
EntryRefs(refs, kind) ==
    Cardinality({k \in DOMAIN refs : refs[k].t = kind /\ refs[k].name = entry_point})

EntryPointReused(g, stream, items, code) ==
    /\ g.included_macros[1] = IncludedMacro(entry_point, stream[1].a, Last(stream).a)
    /\ stream[1].t = "Mark" /\ Last(stream).t = "Mark"
    /\ \A k \in 2..Len(g.included_macros) : g.included_macros[k].name # entry_point
    /\ Cardinality(Places(items, Delta(stream[1].a, Last(stream).a)))
          = EntryRefs(CodeRefsIn(ast[CompiledEntry].body), "BuiltinCodeSize")
    /\ Cardinality(Places(items, Direct(stream[1].a)))
          = EntryRefs(CodeRefsIn(ast[CompiledEntry].body), "BuiltinCodeOffset")
    /\ \A k \in DOMAIN items :
          /\ items[k] = Delta(stream[1].a, Last(stream).a) =>
                Immediates(code, 0, k)[k] = U256_from(Len(code))
          /\ items[k] = Direct(stream[1].a) =>
                Immediates(code, 0, k)[k] = U256_from(0)

EntryPointReusedIn(g) ==
    EntryPointReused(g, StreamOf(g), InstructionItems(g.asm), entry_point_code.bytes)

C30_EntryPointReferencesItself ==
    (pc = "print" /\ ~add_default_constructor) => EntryPointReusedIn(Expansion)

\* MAIN = { __codeoffset(MAIN) __codesize(B) __codesize(MAIN) } with
\* B = { STOP }: PUSH1 00, PUSH1 01, PUSH1 07 and the section of B
C30_SizeOfWholeOutput ==
    /\ pc = "print"
    /\ ast = File(Body(<<>>, <<BuiltinCodeOffset("MAIN"), BuiltinCodeSize("B"),
                               BuiltinCodeSize("MAIN")>>),
                  Body(<<>>, <<Op("ADD")>>), Body(<<>>, <<Op("STOP")>>))
    /\ entry_point_code = Ok(<<96, 0, 96, 1, 96, 7, 0>>)

====
